---- MODULE Spec2Model ----
(***************************************************************************)
(* Session-resolution state machine of terminal_probe_pipeline.py          *)
(* (skills/fix-app-bugs/scripts).  resolve_auto_session is modelled as a    *)
(* sequential process whose position is pc; every reply of the Core and of *)
(* the remote-debug endpoint is an input chosen by the environment.        *)
(***************************************************************************)
EXTENDS Integers, Sequences, FiniteSets, TLC

(* ------------------------------------------------------------------ *)
(* Bounds of the model                                                  *)
(* ------------------------------------------------------------------ *)
\* largest number of entries the remote-debug endpoint lists in one reply
MaxTabs == 2

(* ------------------------------------------------------------------ *)
(* Program constants                                                    *)
(* ------------------------------------------------------------------ *)
SESSION_ENSURE_RETRY_LIMIT == 3
\* 0.4 seconds, in hundredths of a second
BackoffUnit == 40

\* Python None for strings, None for an HTTP status
NULL == "null"
NoStatus == 0

(* ------------------------------------------------------------------ *)
(* URLs.  A URL string is kept as its components as written; port 0    *)
(* means that the string names no port.                                 *)
(* ------------------------------------------------------------------ *)
Url(scheme, host, port, path, query) ==
    [scheme |-> scheme, host |-> host, port |-> port, path |-> path, query |-> query]

NoUrl == Url("", "", 0, "", "")
UrlRoot == Url("http", "127.0.0.1", 5173, "/", "")
UrlQuery == Url("http", "127.0.0.1", 5173, "/", "view=grid")
UrlFeature == Url("http", "127.0.0.1", 5173, "/feature", "")
UrlBlank == Url("about", "", 0, "blank", "")

\* URLs a listed tab may show
TabUrls == {UrlRoot, UrlQuery, UrlFeature, UrlBlank}
\* URLs the caller may ask for
RequestedUrls == {UrlRoot}

NoParts == [valid |-> FALSE, origin |-> <<"", "", 0>>, path |-> ""]

parse_url_parts(raw_url) ==
    IF raw_url.scheme = "" \/ raw_url.host = ""
    THEN NoParts
    ELSE [valid |-> TRUE,
          origin |-> <<raw_url.scheme, raw_url.host,
                       IF raw_url.port # 0 THEN raw_url.port
                       ELSE IF raw_url.scheme = "https" THEN 443 ELSE 80>>,
          path |-> IF raw_url.path = "" THEN "/" ELSE raw_url.path]

Strategies == {"exact", "origin-path", "origin"}

urls_match(candidate_url, requested_url, match_strategy) ==
    IF match_strategy = "exact"
    THEN candidate_url = requested_url
    ELSE LET candidate == parse_url_parts(candidate_url)
             requested == parse_url_parts(requested_url)
         IN IF ~candidate.valid \/ ~requested.valid
            THEN FALSE
            ELSE IF match_strategy = "origin-path"
                 THEN candidate.origin = requested.origin /\ candidate.path = requested.path
                 ELSE IF match_strategy = "origin"
                      THEN candidate.origin = requested.origin
                      ELSE FALSE

(* ------------------------------------------------------------------ *)
(* Replies of the Core and of the remote-debug endpoint (inputs)        *)
(* ------------------------------------------------------------------ *)
ExistingSessionId == "existing-session"
NewSessionId == "auto-session-id"

\* GET /health: HTTP success or not, and the shape of the body
HealthReplies == [ok : BOOLEAN, body : {"not-object", "no-active", "active-no-id", "active"}]

\* POST /session/stop
StopReplies ==
    { [ok |-> TRUE, status |-> 200, errorCode |-> NULL],
      [ok |-> FALSE, status |-> 404, errorCode |-> "SESSION_NOT_FOUND"],
      [ok |-> FALSE, status |-> NoStatus, errorCode |-> NULL] }

\* POST /session/ensure: a 2xx reply with a session, a 2xx reply that is no
\* session object, or an error envelope
EnsureReplies ==
    { [ok |-> TRUE, status |-> 200, errorCode |-> NULL, body |-> "session"],
      [ok |-> TRUE, status |-> 200, errorCode |-> NULL, body |-> "not-object"],
      [ok |-> FALSE, status |-> 404, errorCode |-> "TARGET_NOT_FOUND", body |-> "error"],
      [ok |-> FALSE, status |-> 503, errorCode |-> "CDP_UNAVAILABLE", body |-> "error"],
      [ok |-> FALSE, status |-> 409, errorCode |-> "SESSION_ALREADY_RUNNING", body |-> "error"],
      [ok |-> FALSE, status |-> 422, errorCode |-> "VALIDATION_ERROR", body |-> "error"],
      [ok |-> FALSE, status |-> NoStatus, errorCode |-> NULL, body |-> "error"] }

\* GET /json/list: an array of entries, or one of the three failures
\* a page at each URL, and a worker at the URL the caller asks for
TabEntries ==
    { [url |-> u, type |-> "page"] : u \in TabUrls }
    \cup { [url |-> u, type |-> "service_worker"] : u \in RequestedUrls }
TabListings == UNION { [1..n -> TabEntries] : n \in 0..MaxTabs }
CdpListReplies ==
    { [kind |-> "array", status |-> 200, items |-> l] : l \in TabListings }
    \cup { [kind |-> "not-array", status |-> 200, items |-> <<>>],
           [kind |-> "http-error", status |-> 500, items |-> <<>>],
           [kind |-> "unavailable", status |-> NoStatus, items |-> <<>>] }

\* PUT or GET /json/new: the HTTP status, NoStatus for a transport failure
OpenTabReplies == {200, 404, 405, 500, NoStatus}

(* ------------------------------------------------------------------ *)
(* Session Client                                                       *)
(* ------------------------------------------------------------------ *)
get_active_session_id(reply) ==
    IF ~reply.ok \/ reply.body = "not-object" THEN NULL
    ELSE IF reply.body = "active" THEN ExistingSessionId
    ELSE NULL

stop_session(reply) ==
    IF reply.ok
    THEN [ok |-> TRUE, status |-> reply.status, errorCode |-> NULL]
    ELSE [ok |-> FALSE, status |-> reply.status, errorCode |-> reply.errorCode]

\* "session", "SessionEnsureError" or "RuntimeError"
ensure_session(reply) ==
    IF ~reply.ok THEN "SessionEnsureError"
    ELSE IF reply.body # "session" THEN "RuntimeError"
    ELSE "session"

\* faulty variant (C13): the HTTP status is looked at before the error code
classify_by_status_first(error_code, status) ==
    IF status = 503 THEN "cdp-unavailable"
    ELSE IF status = 409 THEN "session-already-running"
    ELSE IF status = 422 THEN "validation-error"
    ELSE IF error_code = "TARGET_NOT_FOUND" THEN "target-not-found"
    ELSE IF error_code = "CDP_UNAVAILABLE" THEN "cdp-unavailable"
    ELSE IF error_code = "SESSION_ALREADY_RUNNING" THEN "session-already-running"
    ELSE "session-ensure-failed"

classify_session_failure(error_code, status) ==
    IF error_code = "TARGET_NOT_FOUND" THEN "target-not-found"
    ELSE IF error_code = "CDP_UNAVAILABLE" \/ status = 503 THEN "cdp-unavailable"
    ELSE IF error_code = "SESSION_ALREADY_RUNNING" \/ status = 409 THEN "session-already-running"
    ELSE IF status = 422 THEN "validation-error"
    ELSE "session-ensure-failed"

(* ------------------------------------------------------------------ *)
(* Target Resolver                                                      *)
(* ------------------------------------------------------------------ *)
\* faulty variant (C14): entries of every type are kept as targets
list_targets_of_any_type(reply) ==
    IF reply.kind # "array"
    THEN [ok |-> FALSE, status |-> reply.status, errorCode |-> "CDP_LIST_UNAVAILABLE", targets |-> <<>>]
    ELSE [ok |-> TRUE, status |-> reply.status, errorCode |-> NULL,
          targets |-> [i \in 1..Len(reply.items) |->
                          [id |-> i, url |-> reply.items[i].url, type |-> reply.items[i].type]]]

list_tabs_via_cdp(reply) ==
    IF reply.kind = "not-array"
    THEN [ok |-> FALSE, status |-> reply.status, errorCode |-> "INVALID_CDP_LIST_RESPONSE", targets |-> <<>>]
    ELSE IF reply.kind = "http-error"
    THEN [ok |-> FALSE, status |-> reply.status, errorCode |-> "CDP_LIST_HTTP_ERROR", targets |-> <<>>]
    ELSE IF reply.kind = "unavailable"
    THEN [ok |-> FALSE, status |-> NoStatus, errorCode |-> "CDP_LIST_UNAVAILABLE", targets |-> <<>>]
    ELSE LET targets == [i \in 1..Len(reply.items) |->
                            [id |-> i, url |-> reply.items[i].url, type |-> reply.items[i].type]]
             IsPage(item) == item.type = "page"
         IN [ok |-> TRUE, status |-> reply.status, errorCode |-> NULL,
             targets |-> SelectSeq(targets, IsPage)]

\* the reply's candidates list is left out; matchCount is its length
resolve_exact_tab_url_via_cdp(reply, tab_url, match_strategy) ==
    LET listed == list_tabs_via_cdp(reply)
        Matches(item) == urls_match(item.url, tab_url, match_strategy)
        matched_targets == SelectSeq(listed.targets, Matches)
    IN IF ~listed.ok
       THEN [ok |-> FALSE, errorCode |-> listed.errorCode, status |-> listed.status,
             matchCount |-> 0, resolvedTabUrl |-> NoUrl, targetId |-> 0]
       ELSE IF Len(matched_targets) = 0
       THEN [ok |-> FALSE, errorCode |-> "TARGET_NOT_FOUND", status |-> listed.status,
             matchCount |-> 0, resolvedTabUrl |-> NoUrl, targetId |-> 0]
       ELSE IF Len(matched_targets) > 1
       THEN [ok |-> FALSE, errorCode |-> "AMBIGUOUS_TARGET", status |-> listed.status,
             matchCount |-> Len(matched_targets), resolvedTabUrl |-> NoUrl, targetId |-> 0]
       ELSE [ok |-> TRUE, errorCode |-> NULL, status |-> listed.status,
             matchCount |-> 1, resolvedTabUrl |-> matched_targets[1].url,
             targetId |-> matched_targets[1].id]

\* faulty variant (C29): GET is tried after any failed PUT
OpenTabFallsBackOnAnyFailure(put_status) == put_status # 200

\* whether the GET fallback follows a failed PUT
OpenTabFallsBack(put_status) == put_status \in {404, 405}

\* the result, and the HTTP methods tried in order
open_tab_via_cdp(put_status, get_status) ==
    IF put_status = 200
    THEN [ok |-> TRUE, status |-> 200, method |-> "PUT", methods |-> <<"PUT">>]
    ELSE IF ~OpenTabFallsBack(put_status)
    THEN [ok |-> FALSE, status |-> put_status, method |-> "PUT", methods |-> <<"PUT">>]
    ELSE [ok |-> get_status = 200, status |-> get_status, method |-> "GET",
          methods |-> <<"PUT", "GET">>]

(* ------------------------------------------------------------------ *)
(* resolve_auto_session: state                                          *)
(* ------------------------------------------------------------------ *)
VARIABLES
    pc,                              \* position in resolve_auto_session
    force_new_session,               \* argument
    open_tab_if_missing,             \* argument
    caller_reuse_active,             \* argument reuse_active as passed
    tab_url,                         \* argument
    caller_match_strategy,           \* argument tab_url_match_strategy as passed
    reuse_active,                    \* local (overwritten by the forced stop)
    tab_url_match_strategy,          \* local (pinned to exact by a resolution)
    current_tab_url,
    opened_tab_for_target_recovery,
    resolved_exact_tab_url,
    fallback_actions_used,
    attach_branch,
    attempt,                         \* loop variable of the ensure loop
    exc,                             \* the SessionEnsureError being handled
    lifecycle,                       \* the lifecycle record, actions included
    calls,                           \* every request sent and every sleep, in order
    outcome                          \* what the call returned or raised

resolver_vars ==
    <<pc, force_new_session, open_tab_if_missing, caller_reuse_active, tab_url,
      caller_match_strategy, reuse_active, tab_url_match_strategy, current_tab_url,
      opened_tab_for_target_recovery, resolved_exact_tab_url, fallback_actions_used,
      attach_branch, attempt, exc, lifecycle, calls, outcome>>

\* one call of a function studied on its own: its arguments and what it returned
VARIABLES
    classify_call,                   \* classify_session_failure(error)
    resolve_call,                    \* resolve_exact_tab_url_via_cdp(tab_url, match_strategy)
    next_action_calls,               \* build_failure_next_action(...), the calls made so far
    verdict_call,                    \* build_black_screen_verdict(...) as run_pipeline calls it
    open_tab_call,                   \* open_tab_via_cdp(tab_url, debug_port, timeout_seconds)
    bootstrap_call,                  \* bootstrap_guarded.py: main()
    visual_start                     \* visual_debug_start.py: main(), one run

\* the calls studied apart from the first two
later_calls ==
    <<next_action_calls, verdict_call, open_tab_call, bootstrap_call, visual_start>>

function_vars == <<classify_call, resolve_call, later_calls>>

\* run_pipeline
VARIABLES
    run_pc,                          \* position in run_pipeline
    session_id,                      \* argument
    navigate_fallback,               \* argument
    normalize_reference_size,        \* argument
    scenarios,                       \* argument: the scenario definitions
    scenario,                        \* index of the scenario of the for loop
    step,                            \* index of raw_step in scenario_commands
    scenario_failed,
    snapshot_path,
    compare_attempts,
    runtime_entry,
    runtime_scenarios,
    metrics_scenarios,
    warnings,
    run_result,                      \* what run_pipeline returns
    commands_sent,                   \* every POST /command sent, in order
    error_payload,                   \* main: what is printed when the run cannot be made
    exit_code                        \* main: the exit status of the process

pipeline_vars ==
    <<run_pc, session_id, navigate_fallback, normalize_reference_size, scenarios, scenario,
      step, scenario_failed, snapshot_path, compare_attempts, runtime_entry,
      runtime_scenarios, metrics_scenarios, warnings, run_result, commands_sent,
      error_payload, exit_code>>

vars == <<resolver_vars, function_vars, pipeline_vars>>

\* no function call under study
NoCall == [made |-> FALSE]
NextActionIdle == next_action_calls = <<>>
VerdictIdle == verdict_call = NoCall
OpenTabIdle == open_tab_call = NoCall
BootstrapIdle == bootstrap_call = NoCall
VisualStartIdle == visual_start = NoCall
LaterCallsIdle ==
    NextActionIdle /\ VerdictIdle /\ OpenTabIdle /\ BootstrapIdle /\ VisualStartIdle
FunctionsIdle == classify_call = NoCall /\ resolve_call = NoCall /\ LaterCallsIdle

\* run_pipeline is not running
PipelineIdle ==
    /\ run_pc = "idle"
    /\ session_id = NULL
    /\ navigate_fallback = FALSE
    /\ normalize_reference_size = FALSE
    /\ scenarios = <<>>
    /\ scenario = 0
    /\ step = 0
    /\ scenario_failed = FALSE
    /\ snapshot_path = NULL
    /\ compare_attempts = <<>>
    /\ runtime_entry = <<>>
    /\ runtime_scenarios = <<>>
    /\ metrics_scenarios = <<>>
    /\ warnings = <<>>
    /\ run_result = <<>>
    /\ commands_sent = <<>>
    /\ error_payload = <<>>
    /\ exit_code = <<>>

args == <<force_new_session, open_tab_if_missing, caller_reuse_active, tab_url,
          caller_match_strategy>>

\* one entry of lifecycle.actions; fields an action does not carry stay at these values
ActionEntry(action) ==
    [action |-> action, ok |-> TRUE, status |-> NoStatus, errorCode |-> NULL,
     skipped |-> FALSE, reason |-> NULL, sessionId |-> NULL, attempt |-> 0,
     failureCategory |-> NULL, tabUrl |-> NoUrl, matchStrategy |-> NULL,
     matchCount |-> 0, resolvedTabUrl |-> NoUrl, targetId |-> 0, method |-> NULL,
     seconds |-> 0]

\* one entry of calls
Call(kind) ==
    [kind |-> kind, sessionId |-> NULL, tabUrl |-> NoUrl, matchStrategy |-> NULL,
     reuseActive |-> FALSE, reply |-> NULL, seconds |-> 0]

NoOutcome ==
    [kind |-> "none", message |-> NULL, failure_category |-> NULL, error_code |-> NULL,
     sessionId |-> NULL, resolvedTabUrl |-> NoUrl, tabUrlMatchStrategy |-> NULL]

NoExc == [status |-> NoStatus, error_code |-> NULL]

AutoSessionResolutionError(message, category, code) ==
    [NoOutcome EXCEPT !.kind = "AutoSessionResolutionError", !.message = message,
                      !.failure_category = category, !.error_code = code]

AddOnce(seq, name) ==
    IF \E i \in 1..Len(seq) : seq[i] = name THEN seq ELSE Append(seq, name)

Init ==
    /\ pc = "start"
    /\ force_new_session \in BOOLEAN
    /\ open_tab_if_missing \in BOOLEAN
    /\ caller_reuse_active \in BOOLEAN
    /\ tab_url \in RequestedUrls
    /\ caller_match_strategy \in Strategies
    /\ reuse_active = caller_reuse_active
    /\ tab_url_match_strategy = caller_match_strategy
    /\ current_tab_url = tab_url
    /\ opened_tab_for_target_recovery = FALSE
    /\ resolved_exact_tab_url = FALSE
    /\ fallback_actions_used = <<>>
    /\ attach_branch = "direct-ensure"
    /\ attempt = 0
    /\ exc = NoExc
    /\ lifecycle = [forceNewSession |-> force_new_session,
                    openTabIfMissing |-> open_tab_if_missing,
                    tabUrlMatchStrategy |-> caller_match_strategy,
                    failureCategory |-> NULL,
                    ensureAttempts |-> 0,
                    firstEnsureAttemptSucceeded |-> FALSE,
                    fallbackUsed |-> FALSE,
                    fallbackActionsUsed |-> <<>>,
                    attachBranch |-> "direct-ensure",
                    actions |-> <<>>]
    /\ calls = <<>>
    /\ outcome = NoOutcome
    /\ FunctionsIdle
    /\ PipelineIdle

(* ------------------------------------------------------------------ *)
(* resolve_auto_session: the decisions it takes                         *)
(* ------------------------------------------------------------------ *)
\* faulty variant (C2): a stop is sent whatever the health probe says
StopIsSentAlways(active_session_id) == TRUE

\* a forced stop is sent iff the health probe names an active session
StopIsSent(active_session_id) == active_session_id # NULL

\* faulty variant (C3): a failed stop is passed over
StopFailureIsIgnored(stop_result) == FALSE

\* a stop that did not succeed ends the resolution
StopFailureIsFatal(stop_result) == ~stop_result.ok

PreflightRuns(match_strategy) == match_strategy # "exact"

\* a resolution that found one tab pins the URL and the strategy
ResolutionPins(resolved_tab) == resolved_tab.ok /\ resolved_tab.resolvedTabUrl # NoUrl

\* faulty variant (C6): a resolution leaves the requested URL in place
PinnedUrlKept(resolved_tab, url) == url

PinnedUrl(resolved_tab, url) ==
    IF ResolutionPins(resolved_tab) THEN resolved_tab.resolvedTabUrl ELSE url

\* faulty variant (C4): a resolution leaves the caller's strategy in place
PinnedStrategyKept(resolved_tab, match_strategy) == match_strategy

PinnedStrategy(resolved_tab, match_strategy) ==
    IF ResolutionPins(resolved_tab) THEN "exact" ELSE match_strategy

\* faulty variant (C39): a forced stop leaves the caller's reuse setting in place
EffectiveReuseActiveAsPassed(force, reuse) == reuse

EffectiveReuseActive(force, reuse) == IF force THEN FALSE ELSE reuse

\* faulty variant (C37): any success counts as a first-attempt success
FirstAttemptSucceededAlways(n) == TRUE

\* lifecycle["firstEnsureAttemptSucceeded"] = attempt == 1
FirstAttemptSucceeded(n) == n = 1

\* faulty variant (C36): the resolver is run again after it has pinned a tab
ResolverRerunsAfterPin(category, resolved) == category = "target-not-found"

ResolverReruns(category, resolved) == category = "target-not-found" /\ ~resolved

\* faulty variant (C7): an ambiguous listing is handled like an empty one
ResolutionIsNeverAmbiguous(resolved_tab) == FALSE

ResolutionIsAmbiguous(resolved_tab) == resolved_tab.errorCode = "AMBIGUOUS_TARGET"

\* faulty variant (C8): an earlier tab-open is forgotten
TabIsOpenedAgain(enabled, opened, category) ==
    enabled /\ category = "target-not-found"

TabIsOpened(enabled, opened, category) ==
    enabled /\ ~opened /\ category = "target-not-found"

\* a tab-open that succeeded is followed by `continue`, any other by the raise
\* faulty variant (C9): a failed tab-open is taken for a success
TabOpenAlwaysSucceeded(open_tab_result) == TRUE

TabOpenSucceeded(open_tab_result) == open_tab_result.ok

\* faulty variant (C11): every failed attempt but the last is retried after a wait
BacksOffOnAnyFailure(category, n) == n < SESSION_ENSURE_RETRY_LIMIT

BacksOff(category, n) == category = "cdp-unavailable" /\ n < SESSION_ENSURE_RETRY_LIMIT

\* faulty variant (C10): the wait does not grow with the attempt
BackoffSecondsFlat(n) == BackoffUnit

BackoffSeconds(n) == BackoffUnit * n

\* faulty variant (C1): the loop runs one iteration too many
LoopContinuesOffByOne(n) == n <= SESSION_ENSURE_RETRY_LIMIT

\* the for loop has another iteration after attempt n
LoopContinues(n) == n < SESSION_ENSURE_RETRY_LIMIT

Log(entry) == [lifecycle EXCEPT !.actions = Append(@, entry)]

(* ------------------------------------------------------------------ *)
(* resolve_auto_session: steps                                          *)
(* ------------------------------------------------------------------ *)
\* `continue`: the next iteration, or the end of the loop
Continue(lc) ==
    IF LoopContinues(attempt)
    THEN /\ pc' = "ensure"
         /\ attempt' = attempt + 1
         /\ lifecycle' = lc
         /\ outcome' = outcome
    ELSE /\ pc' = "raised"
         /\ attempt' = attempt
         /\ lifecycle' = lc
         /\ outcome' = AutoSessionResolutionError("retry limit exceeded",
                                                  lc.failureCategory, NULL)

\* what follows a failed ensure once the resolver had its turn
Recover(lc, category, error_code) ==
    IF TabIsOpened(open_tab_if_missing, opened_tab_for_target_recovery, category)
    THEN /\ pc' = "open"
         /\ lifecycle' = lc
         /\ outcome' = outcome
    ELSE IF BacksOff(category, attempt)
    THEN /\ pc' = "backoff"
         /\ lifecycle' = lc
         /\ outcome' = outcome
    ELSE /\ pc' = "raised"
         /\ lifecycle' = lc
         /\ outcome' = AutoSessionResolutionError("session ensure failed", category,
                                                  error_code)

ForceNewSessionStage ==
    /\ pc = "start"
    /\ \E health \in HealthReplies, stop \in StopReplies :
         LET active_session_id == get_active_session_id(health)
             stop_result == stop_session(stop)
             probe == [Call("health") EXCEPT !.reply = active_session_id]
             stopCall == [Call("stop") EXCEPT !.sessionId = active_session_id,
                                              !.reply = IF stop.ok THEN "ok" ELSE "error"]
         IN IF ~force_new_session
            THEN /\ pc' = "preflight"
                 /\ UNCHANGED <<reuse_active, lifecycle, calls, outcome>>
            ELSE IF StopIsSent(active_session_id)
            THEN /\ calls' = calls \o <<probe, stopCall>>
                 /\ IF StopFailureIsFatal(stop_result)
                    THEN /\ lifecycle' =
                              [Log([ActionEntry("stop-active-session") EXCEPT
                                      !.sessionId = active_session_id,
                                      !.ok = stop_result.ok,
                                      !.status = stop_result.status,
                                      !.errorCode = stop_result.errorCode])
                                 EXCEPT !.failureCategory = "session-stop-failed"]
                         /\ pc' = "raised"
                         /\ outcome' = AutoSessionResolutionError("force-new-session failed",
                                          "session-stop-failed", stop_result.errorCode)
                         /\ UNCHANGED reuse_active
                    ELSE /\ lifecycle' =
                              Log([ActionEntry("stop-active-session") EXCEPT
                                      !.sessionId = active_session_id,
                                      !.ok = stop_result.ok,
                                      !.status = stop_result.status,
                                      !.errorCode = stop_result.errorCode])
                         /\ pc' = "preflight"
                         /\ reuse_active' = EffectiveReuseActive(TRUE, reuse_active)
                         /\ UNCHANGED outcome
            ELSE /\ calls' = Append(calls, probe)
                 /\ lifecycle' = Log([ActionEntry("stop-active-session") EXCEPT
                                         !.skipped = TRUE, !.reason = "no-active-session"])
                 /\ pc' = "preflight"
                 /\ reuse_active' = EffectiveReuseActive(TRUE, reuse_active)
                 /\ UNCHANGED outcome
    /\ UNCHANGED <<args, tab_url_match_strategy, current_tab_url,
                   opened_tab_for_target_recovery, resolved_exact_tab_url,
                   fallback_actions_used, attach_branch, attempt, exc>>
    /\ UNCHANGED <<function_vars, pipeline_vars>>

Preflight ==
    /\ pc = "preflight"
    /\ \E reply \in IF PreflightRuns(tab_url_match_strategy)
                     THEN CdpListReplies
                     ELSE {[kind |-> "none", status |-> NoStatus, items |-> <<>>]} :
         LET preflight_resolved_tab ==
                 resolve_exact_tab_url_via_cdp(reply, current_tab_url, tab_url_match_strategy)
             pins == ResolutionPins(preflight_resolved_tab)
             entry == [ActionEntry("preflight-resolve-target-from-cdp-list") EXCEPT
                          !.ok = preflight_resolved_tab.ok,
                          !.status = preflight_resolved_tab.status,
                          !.errorCode = preflight_resolved_tab.errorCode,
                          !.matchCount = preflight_resolved_tab.matchCount,
                          !.resolvedTabUrl = preflight_resolved_tab.resolvedTabUrl,
                          !.targetId = preflight_resolved_tab.targetId]
         IN IF ~PreflightRuns(tab_url_match_strategy)
            THEN UNCHANGED <<lifecycle, calls, current_tab_url, tab_url_match_strategy,
                             resolved_exact_tab_url, attach_branch, fallback_actions_used>>
            ELSE /\ calls' = Append(calls, [Call("list") EXCEPT !.reply = reply.kind])
                 /\ lifecycle' = [Log(entry) EXCEPT !.fallbackUsed = IF pins THEN TRUE ELSE @]
                 /\ current_tab_url' = PinnedUrl(preflight_resolved_tab, current_tab_url)
                 /\ tab_url_match_strategy' =
                        PinnedStrategy(preflight_resolved_tab, tab_url_match_strategy)
                 /\ resolved_exact_tab_url' = (pins \/ resolved_exact_tab_url)
                 /\ attach_branch' =
                        IF pins THEN "preflight-resolve-target-from-cdp-list" ELSE attach_branch
                 /\ fallback_actions_used' =
                        IF pins
                        THEN AddOnce(fallback_actions_used, "preflight-resolve-target-from-cdp-list")
                        ELSE fallback_actions_used
    /\ pc' = "ensure"
    /\ attempt' = 1
    /\ UNCHANGED <<args, reuse_active, opened_tab_for_target_recovery, exc, outcome>>
    /\ UNCHANGED <<function_vars, pipeline_vars>>


EnsureAttempt ==
    /\ pc = "ensure"
    /\ \E reply \in EnsureReplies :
         LET ensured == ensure_session(reply)
             request == [Call("ensure") EXCEPT !.tabUrl = current_tab_url,
                                               !.matchStrategy = tab_url_match_strategy,
                                               !.reuseActive = reuse_active,
                                               !.reply = ensured]
             counted == [lifecycle EXCEPT !.ensureAttempts = attempt]
             entry == [ActionEntry("ensure-session") EXCEPT
                          !.attempt = attempt,
                          !.ok = reply.ok,
                          !.status = reply.status,
                          !.errorCode = reply.errorCode,
                          !.tabUrl = current_tab_url,
                          !.matchStrategy = tab_url_match_strategy]
             failure_category == classify_session_failure(reply.errorCode, reply.status)
             failed == [counted EXCEPT
                           !.failureCategory = failure_category,
                           !.actions = Append(@, [entry EXCEPT
                                                     !.failureCategory = failure_category])]
         IN /\ calls' = Append(calls, request)
            /\ IF ensured = "session"
               THEN /\ lifecycle' =
                         [counted EXCEPT
                             !.actions = Append(@, [entry EXCEPT !.sessionId = NewSessionId]),
                             !.firstEnsureAttemptSucceeded = FirstAttemptSucceeded(attempt),
                             !.fallbackUsed = (Len(fallback_actions_used) > 0),
                             !.fallbackActionsUsed = fallback_actions_used,
                             !.attachBranch = attach_branch]
                    /\ pc' = "returned"
                    /\ outcome' = [NoOutcome EXCEPT
                                      !.kind = "returned",
                                      !.sessionId = NewSessionId,
                                      !.resolvedTabUrl = current_tab_url,
                                      !.tabUrlMatchStrategy = tab_url_match_strategy]
                    /\ UNCHANGED exc
               ELSE IF ensured = "RuntimeError"
               THEN /\ lifecycle' = counted
                    /\ pc' = "error"
                    /\ outcome' = [NoOutcome EXCEPT
                                      !.kind = "RuntimeError",
                                      !.message = "session ensure returned non-JSON payload"]
                    /\ UNCHANGED exc
               ELSE /\ exc' = [status |-> reply.status, error_code |-> reply.errorCode]
                    /\ IF ResolverReruns(failure_category, resolved_exact_tab_url)
                       THEN /\ pc' = "resolve"
                            /\ lifecycle' = failed
                            /\ UNCHANGED outcome
                       ELSE Recover(failed, failure_category, reply.errorCode)
    /\ UNCHANGED <<args, reuse_active, tab_url_match_strategy, current_tab_url,
                   opened_tab_for_target_recovery, resolved_exact_tab_url,
                   fallback_actions_used, attach_branch, attempt>>
    /\ UNCHANGED <<function_vars, pipeline_vars>>

ResolveTargetFromCdpList ==
    /\ pc = "resolve"
    /\ \E reply \in CdpListReplies :
         LET resolved_tab ==
                 resolve_exact_tab_url_via_cdp(reply, current_tab_url, tab_url_match_strategy)
             logged == Log([ActionEntry("resolve-target-from-cdp-list") EXCEPT
                               !.ok = resolved_tab.ok,
                               !.status = resolved_tab.status,
                               !.errorCode = resolved_tab.errorCode,
                               !.matchCount = resolved_tab.matchCount,
                               !.resolvedTabUrl = resolved_tab.resolvedTabUrl,
                               !.targetId = resolved_tab.targetId])
         IN /\ calls' = Append(calls, [Call("list") EXCEPT !.reply = reply.kind])
            /\ IF ResolutionPins(resolved_tab)
               THEN /\ current_tab_url' = PinnedUrl(resolved_tab, current_tab_url)
                    /\ tab_url_match_strategy' =
                           PinnedStrategy(resolved_tab, tab_url_match_strategy)
                    /\ resolved_exact_tab_url' = TRUE
                    /\ attach_branch' = "resolve-target-from-cdp-list"
                    /\ fallback_actions_used' =
                           AddOnce(fallback_actions_used, "resolve-target-from-cdp-list")
                    /\ Continue([logged EXCEPT !.fallbackUsed = TRUE])
               ELSE IF ResolutionIsAmbiguous(resolved_tab)
               THEN /\ lifecycle' = [logged EXCEPT !.failureCategory = "ambiguous-target"]
                    /\ pc' = "raised"
                    /\ outcome' = AutoSessionResolutionError("session ensure failed",
                                       "ambiguous-target", "AMBIGUOUS_TARGET")
                    /\ UNCHANGED <<current_tab_url, tab_url_match_strategy,
                                   resolved_exact_tab_url, attach_branch,
                                   fallback_actions_used, attempt>>
               ELSE /\ Recover(logged, "target-not-found", exc.error_code)
                    /\ UNCHANGED <<current_tab_url, tab_url_match_strategy,
                                   resolved_exact_tab_url, attach_branch,
                                   fallback_actions_used, attempt>>
    /\ UNCHANGED <<args, reuse_active, opened_tab_for_target_recovery, exc>>
    /\ UNCHANGED <<function_vars, pipeline_vars>>

OpenTabIfMissing ==
    /\ pc = "open"
    /\ \E put_status \in OpenTabReplies, get_status \in OpenTabReplies :
         LET open_tab_result == open_tab_via_cdp(put_status, get_status)
             requests == [i \in 1..Len(open_tab_result.methods) |->
                             [Call("new") EXCEPT !.tabUrl = current_tab_url,
                                                 !.reply = open_tab_result.methods[i]]]
             logged == Log([ActionEntry("open-tab-if-missing") EXCEPT
                               !.ok = open_tab_result.ok,
                               !.status = open_tab_result.status,
                               !.method = open_tab_result.method])
         IN /\ calls' = calls \o requests
            /\ IF TabOpenSucceeded(open_tab_result)
               THEN /\ opened_tab_for_target_recovery' = TRUE
                    /\ attach_branch' = "open-tab-if-missing"
                    /\ fallback_actions_used' =
                           AddOnce(fallback_actions_used, "open-tab-if-missing")
                    /\ Continue([logged EXCEPT !.fallbackUsed = TRUE])
               ELSE /\ lifecycle' = logged
                    /\ pc' = "raised"
                    /\ outcome' = AutoSessionResolutionError("open-tab-if-missing failed",
                                       "open-tab-failed", NULL)
                    /\ UNCHANGED <<opened_tab_for_target_recovery, attach_branch,
                                   fallback_actions_used, attempt>>
    /\ UNCHANGED <<args, reuse_active, tab_url_match_strategy, current_tab_url,
                   resolved_exact_tab_url, exc>>
    /\ UNCHANGED <<function_vars, pipeline_vars>>

RetryAfterBackoff ==
    /\ pc = "backoff"
    /\ LET backoff_seconds == BackoffSeconds(attempt)
           logged == Log([ActionEntry("retry-after-backoff") EXCEPT
                             !.attempt = attempt,
                             !.reason = "cdp-unavailable",
                             !.seconds = backoff_seconds])
       IN /\ calls' = Append(calls, [Call("sleep") EXCEPT !.seconds = backoff_seconds])
          /\ attach_branch' = "retry-after-backoff"
          /\ fallback_actions_used' = AddOnce(fallback_actions_used, "retry-after-backoff")
          /\ Continue([logged EXCEPT !.fallbackUsed = TRUE])
    /\ UNCHANGED <<args, reuse_active, tab_url_match_strategy, current_tab_url,
                   opened_tab_for_target_recovery, resolved_exact_tab_url, exc>>
    /\ UNCHANGED <<function_vars, pipeline_vars>>

Next ==
    \/ ForceNewSessionStage
    \/ Preflight
    \/ EnsureAttempt
    \/ ResolveTargetFromCdpList
    \/ OpenTabIfMissing
    \/ RetryAfterBackoff

Spec == Init /\ [][Next]_vars

\* the resolver is a running process: a step that can be taken is taken
LiveSpec == Spec /\ WF_vars(Next)

(* ------------------------------------------------------------------ *)
(* The functions on their own: one call, arguments chosen freely        *)
(* ------------------------------------------------------------------ *)
\* resolve_auto_session is not running
ResolverIdle ==
    /\ pc = "idle"
    /\ force_new_session = FALSE
    /\ open_tab_if_missing = FALSE
    /\ caller_reuse_active = FALSE
    /\ tab_url = NoUrl
    /\ caller_match_strategy = NULL
    /\ reuse_active = FALSE
    /\ tab_url_match_strategy = NULL
    /\ current_tab_url = NoUrl
    /\ opened_tab_for_target_recovery = FALSE
    /\ resolved_exact_tab_url = FALSE
    /\ fallback_actions_used = <<>>
    /\ attach_branch = NULL
    /\ attempt = 0
    /\ exc = NoExc
    /\ lifecycle = [actions |-> <<>>]
    /\ calls = <<>>
    /\ outcome = NoOutcome

\* error codes an error envelope of the Core may carry, NULL for none
ErrorCodes ==
    {NULL, "TARGET_NOT_FOUND", "CDP_UNAVAILABLE", "SESSION_ALREADY_RUNNING",
     "VALIDATION_ERROR", "AMBIGUOUS_TARGET", "COMMAND_TIMEOUT", "INTERNAL_ERROR"}

\* HTTP statuses of a failed request, NoStatus for a transport failure
ErrorStatuses == {NoStatus, 400, 404, 409, 422, 500, 503}

\* the SessionEnsureError passed to classify_session_failure
SessionEnsureErrors == [status : ErrorStatuses, error_code : ErrorCodes]

ClassifyInit ==
    /\ ResolverIdle
    /\ PipelineIdle
    /\ resolve_call = NoCall
    /\ LaterCallsIdle
    /\ classify_call \in [made : {FALSE}, error : SessionEnsureErrors, returned : {NULL}]

ClassifySessionFailure ==
    /\ ~classify_call.made
    /\ classify_call' =
           [classify_call EXCEPT
               !.made = TRUE,
               !.returned = classify_session_failure(classify_call.error.error_code,
                                                     classify_call.error.status)]
    /\ UNCHANGED <<resolver_vars, pipeline_vars, resolve_call, later_calls>>

ClassifyNext == ClassifySessionFailure

ClassifySpec == ClassifyInit /\ [][ClassifyNext]_vars

\* URLs asked of the resolver on its own
ResolvedUrls == {UrlRoot, UrlQuery, UrlFeature}

NoResolution ==
    [ok |-> FALSE, errorCode |-> NULL, status |-> NoStatus, matchCount |-> 0,
     resolvedTabUrl |-> NoUrl, targetId |-> 0]

ResolveInit ==
    /\ ResolverIdle
    /\ PipelineIdle
    /\ classify_call = NoCall
    /\ LaterCallsIdle
    /\ resolve_call \in [made : {FALSE}, reply : CdpListReplies, tab_url : ResolvedUrls,
                         match_strategy : Strategies, returned : {NoResolution}]

ResolveExactTabUrlViaCdp ==
    /\ ~resolve_call.made
    /\ resolve_call' =
           [resolve_call EXCEPT
               !.made = TRUE,
               !.returned = resolve_exact_tab_url_via_cdp(resolve_call.reply,
                                                          resolve_call.tab_url,
                                                          resolve_call.match_strategy)]
    /\ UNCHANGED <<resolver_vars, pipeline_vars, classify_call, later_calls>>

ResolveNext == ResolveExactTabUrlViaCdp

ResolveSpec == ResolveInit /\ [][ResolveNext]_vars

(* ------------------------------------------------------------------ *)
(* run_pipeline: inputs                                                 *)
(* ------------------------------------------------------------------ *)
\* most command steps of one scenario file, all its scenarios taken together
MaxSteps == 3

\* names of the scenarios of the file, in file order
ScenarioNames == <<"scene-off", "scene-fail">>

ReferenceFile == "reference.png"
SnapshotFile == "snapshot.png"

\* a scenario as load_scenarios returns it; `commands` is the number of its
\* steps, and what a step holds is read when the loop reaches it
ScenarioDefinitions(name) ==
    [name : {name}, commands : 0..MaxSteps, referenceImagePath : {NULL, ReferenceFile}]

RECURSIVE StepsOf(_)
StepsOf(file) ==
    IF file = <<>> THEN 0 ELSE file[1].commands + StepsOf(Tail(file))

ScenarioFiles ==
    UNION { {file \in [1..n -> UNION {ScenarioDefinitions(ScenarioNames[i]) : i \in 1..n}] :
                /\ \A i \in 1..n : file[i].name = ScenarioNames[i]
                /\ StepsOf(file) <= MaxSteps} :
            n \in 1..Len(ScenarioNames) }

\* what the scenario file may hold: a list that load_scenarios accepts, with a
\* name it has to strip, or one it refuses (empty, or a scenario of blank name)
ScenarioFileContents ==
    ScenarioFiles
    \cup {<<>>,
          <<[name |-> "   ", commands |-> 0, referenceImagePath |-> NULL]>>,
          <<[name |-> " scene-off ", commands |-> 0, referenceImagePath |-> NULL]>>}

\* name_raw.strip()
StripName(name) ==
    CASE name = " scene-off " -> "scene-off"
      [] name = "   " -> ""
      [] OTHER -> name

load_scenarios(payload) ==
    IF payload = <<>>
    THEN [raised |-> TRUE, error |-> "Scenario file must be a non-empty JSON array",
          scenarios |-> <<>>]
    ELSE IF \E index \in DOMAIN payload : StripName(payload[index].name) = ""
    THEN [raised |-> TRUE, error |-> "Scenario must have non-empty string 'name'",
          scenarios |-> <<>>]
    ELSE [raised |-> FALSE, error |-> NULL,
          scenarios |-> [index \in DOMAIN payload |->
                            [payload[index] EXCEPT !.name = StripName(@)]]]

\* --session-id: auto, or the id of a session
RequestedSessionIds == {"auto", NewSessionId}

\* --tab-url: not given, or the URL of the app
RequestedTabUrls == {NoUrl, UrlRoot}

\* how resolve_auto_session ends
SessionResolutions ==
    {[NoOutcome EXCEPT !.kind = "returned", !.sessionId = NewSessionId],
     AutoSessionResolutionError("session ensure failed", "target-not-found",
                                "TARGET_NOT_FOUND"),
     AutoSessionResolutionError("retry limit exceeded", "cdp-unavailable",
                                "CDP_UNAVAILABLE")}

\* a step as written in the file: a supported verb, a verb that is not
\* supported, or a step that is no object
RawSteps == {"reload", "navigate", "scroll", "not-object"}

SupportedCommands ==
    {"reload", "wait", "navigate", "evaluate", "click", "type", "webgl-diagnostics", "snapshot"}

\* error texts of the Core; the first holds the stale-transport signature
StaleTransportText == "client.Page.once is not a function"
InvalidPayloadText == "Invalid payload"

\* replies to POST /command
OkReply == [ok |-> TRUE, status |-> 200, errorCode |-> NULL, message |-> NULL, path |-> NULL]

ErrorReply(status, code, message) ==
    [ok |-> FALSE, status |-> status, errorCode |-> code, message |-> message, path |-> NULL]

CommandReplies ==
    {OkReply,
     ErrorReply(422, "VALIDATION_ERROR", StaleTransportText),
     ErrorReply(422, "VALIDATION_ERROR", InvalidPayloadText)}

SnapshotReplies ==
    {[OkReply EXCEPT !.path = SnapshotFile],
     OkReply,
     ErrorReply(504, "COMMAND_TIMEOUT", "Command timed out")}

CompareReplies ==
    {OkReply,
     ErrorReply(422, "IMAGE_DIMENSION_MISMATCH", "Image dimensions must match for comparison"),
     ErrorReply(404, "FILE_NOT_FOUND", "Reference image not found")}

(* ------------------------------------------------------------------ *)
(* run_pipeline: the functions it calls                                 *)
(* ------------------------------------------------------------------ *)
\* faulty variant (C28): a verb that is not supported is passed on as it is
command_payload_from_any_step(raw_step) == [raised |-> FALSE, command |-> raw_step]

\* the verb of a step, or the RuntimeError for a verb that is not supported
command_payload_from_step(raw_step) ==
    IF raw_step \in SupportedCommands
    THEN [raised |-> FALSE, command |-> raw_step]
    ELSE [raised |-> TRUE, command |-> NULL]

run_core_command(reply) ==
    IF ~reply.ok
    THEN [ok |-> FALSE, status |-> reply.status, error |-> reply.message,
          errorCode |-> reply.errorCode, path |-> NULL]
    ELSE [ok |-> TRUE, status |-> reply.status, error |-> NULL, errorCode |-> NULL,
          path |-> reply.path]

should_retry_navigate_with_evaluate(command_result) ==
    IF command_result.ok THEN FALSE ELSE command_result.error = StaleTransportText

\* one entry of runtime_entry.commands; the snapshot record has the same fields
CommandRecord(command, command_result) ==
    [command |-> command, ok |-> command_result.ok, status |-> command_result.status,
     error |-> command_result.error, errorCode |-> command_result.errorCode,
     path |-> command_result.path, fallbackFor |-> NULL]

\* one entry of compare_attempts
CompareAttempt(dimension_policy, compare_result) ==
    [ok |-> compare_result.ok, status |-> compare_result.status,
     error |-> compare_result.error, errorCode |-> compare_result.errorCode,
     dimensionPolicy |-> dimension_policy]

\* the arguments build_failure_next_action is called with
FailureNextAction(source, error_code, error_message) ==
    <<[source |-> source, error_code |-> error_code, error_message |-> error_message]>>

\* one POST /command as sent
CommandRequest(command) ==
    [command |-> command, sessionId |-> session_id, scenario |-> scenario, step |-> step,
     dimensionPolicy |-> NULL, fallbackFor |-> NULL]

(* ------------------------------------------------------------------ *)
(* run_pipeline: the decisions it takes                                 *)
(* ------------------------------------------------------------------ *)
\* faulty variant (C16): the flag of the scenario before is carried over
ScenarioFailedCarriedOver(carried) == carried

\* scenario_failed at the start of a scenario
ScenarioFailedAtStart(carried) == FALSE

\* faulty variant (C19): the switch of the navigate fallback is read inverted
FallbackAppliesWhenSwitchedOff(command, enabled, command_result) ==
    command = "navigate" /\ ~enabled /\ should_retry_navigate_with_evaluate(command_result)

FallbackApplies(command, enabled, command_result) ==
    command = "navigate" /\ enabled /\ should_retry_navigate_with_evaluate(command_result)

\* faulty variant (C15): the snapshot is taken whatever came before
SnapshotIsTakenAlways(failed) == TRUE

SnapshotIsTaken(failed) == ~failed

\* faulty variant (C18): the comparison is made without a reference image
ComparisonIsMadeWithoutReference(failed, reference_image_path, path) ==
    ~failed /\ path # NULL

ComparisonIsMade(failed, reference_image_path, path) ==
    ~failed /\ reference_image_path # NULL /\ path # NULL

\* faulty variant (C20): every failed comparison is retried with a resize
ResizeRetryOnAnyFailure(compare_result, enabled) == ~compare_result.ok /\ enabled

ResizeRetryApplies(compare_result, enabled) ==
    ~compare_result.ok /\ compare_result.errorCode = "IMAGE_DIMENSION_MISMATCH" /\ enabled

\* faulty variant (C24): the action of the last failed scenario is surfaced
select_last_next_action(entries) ==
    LET failed == {i \in DOMAIN entries : ~entries[i].ok /\ entries[i].nextAction # <<>>}
    IN IF failed = {} THEN <<>>
       ELSE entries[CHOOSE i \in failed : \A j \in failed : j <= i].nextAction

select_primary_next_action(entries) ==
    LET failed == {i \in DOMAIN entries : ~entries[i].ok /\ entries[i].nextAction # <<>>}
    IN IF failed = {} THEN <<>>
       ELSE entries[CHOOSE i \in failed : \A j \in failed : i <= j].nextAction

\* faulty variant (C27): the process exits 0 whatever the run returned
ExitCodeAlwaysZero(result_ok) == 0

\* main: return 0 if result["ok"] else 2
ExitCode(result_ok) == IF result_ok THEN 0 ELSE 2

\* faulty variant (C17): a scenario counts as passed whatever happened
EntryOkAlways(failed) == TRUE

EntryOk(failed) == ~failed

(* ------------------------------------------------------------------ *)
(* run_pipeline: steps                                                  *)
(* ------------------------------------------------------------------ *)
PipelineInit ==
    /\ ResolverIdle
    /\ FunctionsIdle
    /\ run_pc = "main"
    /\ session_id = NULL
    /\ navigate_fallback \in BOOLEAN
    /\ normalize_reference_size \in BOOLEAN
    /\ scenarios \in ScenarioFileContents
    /\ scenario = 1
    /\ step = 0
    /\ scenario_failed = FALSE
    /\ snapshot_path = NULL
    /\ compare_attempts = <<>>
    /\ runtime_entry = <<>>
    /\ runtime_scenarios = <<>>
    /\ metrics_scenarios = <<>>
    /\ warnings = <<>>
    /\ run_result = <<>>
    /\ commands_sent = <<>>
    /\ error_payload = <<>>
    /\ exit_code = <<>>

\* main gives up before run_pipeline is called: return 1
MainFails(error, next_action) ==
    /\ run_pc' = "failed"
    /\ error_payload' = <<[ok |-> FALSE, error |-> error, nextAction |-> next_action]>>
    /\ exit_code' = <<1>>

\* main, up to the session id: the scenario file has to exist, and with
\* --session-id auto the session is resolved from --tab-url
ResolveSession ==
    /\ run_pc = "main"
    /\ \E file_exists \in BOOLEAN, requested_session_id \in RequestedSessionIds,
          requested_tab_url \in RequestedTabUrls, resolution \in SessionResolutions :
         IF ~file_exists
         THEN MainFails("scenario file does not exist", <<>>) /\ UNCHANGED session_id
         ELSE IF requested_session_id # "auto"
         THEN /\ session_id' = requested_session_id
              /\ run_pc' = "load"
              /\ UNCHANGED <<error_payload, exit_code>>
         ELSE IF requested_tab_url = NoUrl
         THEN /\ MainFails("--tab-url is required when --session-id auto", <<>>)
              /\ UNCHANGED session_id
         ELSE IF resolution.kind = "returned"
         THEN /\ session_id' = resolution.sessionId
              /\ run_pc' = "load"
              /\ UNCHANGED <<error_payload, exit_code>>
         ELSE /\ MainFails(resolution.message,
                           <<[source |-> "session-lifecycle",
                              error_code |-> resolution.error_code,
                              error_message |-> resolution.message,
                              failure_category |-> resolution.failure_category]>>)
              /\ UNCHANGED session_id
    /\ UNCHANGED <<navigate_fallback, normalize_reference_size, scenarios, scenario, step,
                   scenario_failed, snapshot_path, compare_attempts, runtime_entry,
                   runtime_scenarios, metrics_scenarios, warnings, run_result,
                   commands_sent>>
    /\ UNCHANGED <<resolver_vars, function_vars>>

\* main: load_scenarios and prepare_output_dir, then run_pipeline is called
\* with the scenarios loaded; an exception of either is caught by main
LoadScenarios ==
    /\ run_pc = "load"
    /\ \E output_dir_made \in BOOLEAN :
         LET loaded == load_scenarios(scenarios)
             error == IF loaded.raised THEN loaded.error ELSE "mkdir failed"
         IN IF loaded.raised \/ ~output_dir_made
            THEN /\ MainFails(error,
                              <<[source |-> "pipeline", error_code |-> NULL,
                                 error_message |-> error,
                                 failure_category |-> NULL]>>)
                 /\ UNCHANGED scenarios
            ELSE /\ scenarios' = loaded.scenarios
                 /\ run_pc' = "scenario"
                 /\ UNCHANGED <<error_payload, exit_code>>
    /\ UNCHANGED <<session_id, navigate_fallback, normalize_reference_size, scenario, step,
                   scenario_failed, snapshot_path, compare_attempts, runtime_entry,
                   runtime_scenarios, metrics_scenarios, warnings, run_result,
                   commands_sent>>
    /\ UNCHANGED <<resolver_vars, function_vars>>

\* the guard of the comparison block
AfterSnapshot(failed, path) ==
    IF ComparisonIsMade(failed, scenarios[scenario].referenceImagePath, path)
    THEN run_pc' = "compare"
    ELSE run_pc' = "finish"

\* the loop over the steps is left: the guard of the snapshot block
AfterCommands(failed) ==
    IF SnapshotIsTaken(failed)
    THEN run_pc' = "snapshot"
    ELSE AfterSnapshot(failed, snapshot_path)

\* the step at `step` is done with: `break`, the next step, or the end of the loop
AfterStep(broke, failed) ==
    IF broke THEN step' = step /\ AfterCommands(failed)
    ELSE IF step < scenarios[scenario].commands THEN run_pc' = "commands" /\ step' = step + 1
    ELSE step' = step /\ AfterCommands(failed)

\* the head of the loop over the scenarios
BeginScenario ==
    /\ run_pc = "scenario"
    /\ runtime_entry' = [name |-> scenarios[scenario].name, commands |-> <<>>,
                         snapshot |-> <<>>, compareReference |-> <<>>, errors |-> <<>>,
                         nextAction |-> <<>>]
    /\ scenario_failed' = ScenarioFailedAtStart(scenario_failed)
    /\ snapshot_path' = NULL
    /\ compare_attempts' = <<>>
    /\ IF scenarios[scenario].commands > 0
       THEN run_pc' = "commands" /\ step' = 1
       ELSE step' = 0 /\ AfterCommands(ScenarioFailedAtStart(scenario_failed))
    /\ UNCHANGED <<error_payload, session_id, navigate_fallback, normalize_reference_size,
                   scenarios, scenario, runtime_scenarios, metrics_scenarios, warnings, run_result,
                   commands_sent>>
    /\ UNCHANGED <<resolver_vars, function_vars, exit_code>>

\* one iteration of the loop over scenario_commands
RunCommandStep ==
    /\ run_pc = "commands"
    /\ \E raw_step \in RawSteps, reply \in CommandReplies :
         LET parsed == command_payload_from_step(raw_step)
             command_result == run_core_command(reply)
             recorded == [runtime_entry EXCEPT
                             !.commands = Append(@, CommandRecord(parsed.command,
                                                                  command_result))]
         IN IF raw_step = "not-object"
            THEN /\ runtime_entry' =
                        [runtime_entry EXCEPT
                            !.errors = Append(@, "Scenario command step must be an object"),
                            !.nextAction = FailureNextAction("scenario-definition", NULL,
                                               "Scenario command step must be an object")]
                 /\ scenario_failed' = TRUE
                 /\ AfterStep(TRUE, TRUE)
                 /\ UNCHANGED commands_sent
            ELSE IF parsed.raised
            THEN /\ runtime_entry' =
                        [runtime_entry EXCEPT
                            !.errors = Append(@, "Unsupported command"),
                            !.nextAction = FailureNextAction("scenario-definition",
                                               "VALIDATION_ERROR", "Unsupported command")]
                 /\ scenario_failed' = TRUE
                 /\ AfterStep(TRUE, TRUE)
                 /\ UNCHANGED commands_sent
            ELSE /\ commands_sent' = Append(commands_sent, CommandRequest(parsed.command))
                 /\ IF command_result.ok
                    THEN /\ runtime_entry' = recorded
                         /\ UNCHANGED scenario_failed
                         /\ AfterStep(FALSE, scenario_failed)
                    ELSE IF FallbackApplies(parsed.command, navigate_fallback, command_result)
                    THEN /\ runtime_entry' = recorded
                         /\ UNCHANGED <<scenario_failed, step>>
                         /\ run_pc' = "fallback"
                    ELSE /\ runtime_entry' =
                                [recorded EXCEPT
                                    !.errors = Append(@, "Scenario command failed"),
                                    !.nextAction = FailureNextAction("scenario-command",
                                                       command_result.errorCode,
                                                       command_result.error)]
                         /\ scenario_failed' = TRUE
                         /\ AfterStep(TRUE, TRUE)
    /\ UNCHANGED <<error_payload, session_id, navigate_fallback, normalize_reference_size,
                   scenarios, scenario, snapshot_path, compare_attempts, runtime_scenarios,
                   metrics_scenarios, warnings, run_result>>
    /\ UNCHANGED <<resolver_vars, function_vars, exit_code>>

\* the evaluate command sent in place of a navigate that failed
NavigateFallback ==
    /\ run_pc = "fallback"
    /\ \E reply \in CommandReplies :
         LET fallback_result == run_core_command(reply)
             recorded == [runtime_entry EXCEPT
                             !.commands = Append(@, [CommandRecord("evaluate", fallback_result)
                                                        EXCEPT !.fallbackFor = "navigate"])]
         IN /\ commands_sent' = Append(commands_sent, [CommandRequest("evaluate") EXCEPT
                                                          !.fallbackFor = "navigate"])
            /\ IF fallback_result.ok
               THEN /\ runtime_entry' = recorded
                    /\ warnings' = Append(warnings, "navigate-fallback")
                    /\ UNCHANGED scenario_failed
                    /\ AfterStep(FALSE, scenario_failed)
               ELSE /\ runtime_entry' =
                           [recorded EXCEPT
                               !.errors = Append(@, "Scenario command 'navigate' fallback failed"),
                               !.nextAction = FailureNextAction("scenario-command",
                                                  fallback_result.errorCode,
                                                  fallback_result.error)]
                    /\ scenario_failed' = TRUE
                    /\ UNCHANGED warnings
                    /\ AfterStep(TRUE, TRUE)
    /\ UNCHANGED <<error_payload, session_id, navigate_fallback, normalize_reference_size,
                   scenarios, scenario, snapshot_path, compare_attempts, runtime_scenarios,
                   metrics_scenarios, run_result>>
    /\ UNCHANGED <<resolver_vars, function_vars, exit_code>>

\* the snapshot block
Snapshot ==
    /\ run_pc = "snapshot"
    /\ \E reply \in SnapshotReplies :
         LET snapshot_result == run_core_command(reply)
             recorded == [runtime_entry EXCEPT
                             !.snapshot = <<CommandRecord("snapshot", snapshot_result)>>]
         IN /\ commands_sent' = Append(commands_sent, CommandRequest("snapshot"))
            /\ IF snapshot_result.ok /\ snapshot_result.path # NULL
               THEN /\ runtime_entry' = recorded
                    /\ snapshot_path' = snapshot_result.path
                    /\ UNCHANGED scenario_failed
                    /\ AfterSnapshot(scenario_failed, snapshot_result.path)
               ELSE IF snapshot_result.ok
               THEN /\ runtime_entry' =
                           [recorded EXCEPT
                               !.errors = Append(@, "Snapshot command returned no image path"),
                               !.nextAction = FailureNextAction("snapshot", NULL,
                                                  "Snapshot command returned no image path")]
                    /\ scenario_failed' = TRUE
                    /\ UNCHANGED snapshot_path
                    /\ AfterSnapshot(TRUE, snapshot_path)
               ELSE /\ runtime_entry' =
                           [recorded EXCEPT
                               !.errors = Append(@, "Snapshot failed"),
                               !.nextAction = FailureNextAction("snapshot",
                                                  snapshot_result.errorCode,
                                                  snapshot_result.error)]
                    /\ scenario_failed' = TRUE
                    /\ UNCHANGED snapshot_path
                    /\ AfterSnapshot(TRUE, snapshot_path)
    /\ UNCHANGED <<error_payload, session_id, navigate_fallback, normalize_reference_size,
                   scenarios, scenario, step, compare_attempts, runtime_scenarios, metrics_scenarios,
                   warnings, run_result>>
    /\ UNCHANGED <<resolver_vars, function_vars, exit_code>>

\* the compareReference record and what follows from it
RecordComparison(compare_result, attempts) ==
    LET recorded ==
            [runtime_entry EXCEPT
                !.compareReference =
                    <<[ok |-> compare_result.ok, status |-> compare_result.status,
                       error |-> compare_result.error,
                       errorCode |-> compare_result.errorCode,
                       dimensionPolicy |-> attempts[Len(attempts)].dimensionPolicy,
                       attempts |-> attempts,
                       fallbackApplied |-> Len(attempts) > 1]>>]
    IN /\ run_pc' = "finish"
       /\ IF compare_result.ok
          THEN /\ runtime_entry' = recorded
               /\ UNCHANGED scenario_failed
          ELSE /\ runtime_entry' =
                      [recorded EXCEPT
                          !.errors = Append(@, "compare-reference failed"),
                          !.nextAction = FailureNextAction("compare-reference",
                                             compare_result.errorCode, compare_result.error)]
               /\ scenario_failed' = TRUE

\* the comparison under dimensionPolicy strict
CompareReference ==
    /\ run_pc = "compare"
    /\ \E reply \in CompareReplies :
         LET compare_result == run_core_command(reply)
             attempts == Append(compare_attempts, CompareAttempt("strict", compare_result))
         IN /\ commands_sent' = Append(commands_sent,
                                       [CommandRequest("compare-reference") EXCEPT
                                           !.dimensionPolicy = "strict"])
            /\ compare_attempts' = attempts
            /\ IF ResizeRetryApplies(compare_result, normalize_reference_size)
               THEN /\ run_pc' = "resize"
                    /\ UNCHANGED <<runtime_entry, scenario_failed>>
               ELSE RecordComparison(compare_result, attempts)
    /\ UNCHANGED <<error_payload, session_id, navigate_fallback, normalize_reference_size,
                   scenarios, scenario, step, snapshot_path, runtime_scenarios, metrics_scenarios,
                   warnings, run_result>>
    /\ UNCHANGED <<resolver_vars, function_vars, exit_code>>

\* the comparison once more, under dimensionPolicy resize-reference-to-actual
CompareWithResize ==
    /\ run_pc = "resize"
    /\ \E reply \in CompareReplies :
         LET compare_result == run_core_command(reply)
             attempts == Append(compare_attempts,
                                CompareAttempt("resize-reference-to-actual", compare_result))
         IN /\ commands_sent' = Append(commands_sent,
                                       [CommandRequest("compare-reference") EXCEPT
                                           !.dimensionPolicy = "resize-reference-to-actual"])
            /\ compare_attempts' = attempts
            /\ warnings' = IF compare_result.ok
                           THEN Append(warnings, "compare-reference auto-resized")
                           ELSE warnings
            /\ RecordComparison(compare_result, attempts)
    /\ UNCHANGED <<error_payload, session_id, navigate_fallback, normalize_reference_size,
                   scenarios, scenario, step, snapshot_path, runtime_scenarios, metrics_scenarios,
                   run_result>>
    /\ UNCHANGED <<resolver_vars, function_vars, exit_code>>

\* the end of the loop body: the two entries of the scenario are appended
FinishScenario ==
    /\ run_pc = "finish"
    /\ LET metrics_entry == [name |-> scenarios[scenario].name,
                             ok |-> EntryOk(scenario_failed),
                             snapshotPath |-> snapshot_path,
                             referenceImagePath |-> scenarios[scenario].referenceImagePath,
                             errors |-> runtime_entry.errors]
           finished ==
               [name |-> runtime_entry.name,
                commands |-> runtime_entry.commands,
                snapshot |-> runtime_entry.snapshot,
                compareReference |-> runtime_entry.compareReference,
                errors |-> runtime_entry.errors,
                nextAction |-> IF scenario_failed /\ runtime_entry.nextAction = <<>>
                               THEN FailureNextAction("scenario", NULL,
                                        "Scenario failed without categorized error details")
                               ELSE runtime_entry.nextAction,
                ok |-> EntryOk(scenario_failed)]
       IN /\ runtime_scenarios' = Append(runtime_scenarios, finished)
          /\ metrics_scenarios' = Append(metrics_scenarios, metrics_entry)
          /\ runtime_entry' = finished
    /\ IF scenario < Len(scenarios)
       THEN run_pc' = "scenario" /\ scenario' = scenario + 1
       ELSE run_pc' = "summary" /\ scenario' = scenario
    /\ UNCHANGED <<error_payload, session_id, navigate_fallback, normalize_reference_size,
                   scenarios, step,
                   scenario_failed, snapshot_path, compare_attempts, warnings, run_result,
                   commands_sent>>
    /\ UNCHANGED <<resolver_vars, function_vars, exit_code>>

\* after the loop: what run_pipeline returns, and main's exit status with it
ReturnSummary ==
    /\ run_pc = "summary"
    /\ LET failed == {i \in DOMAIN runtime_scenarios : ~runtime_scenarios[i].ok}
           overall_ok == \A i \in DOMAIN runtime_scenarios : runtime_scenarios[i].ok
           primary_next_action ==
               IF overall_ok THEN <<>> ELSE select_primary_next_action(runtime_scenarios)
       IN /\ run_result' =
                 <<[ok |-> overall_ok,
                    scenarioCount |-> Len(runtime_scenarios),
                    failedScenarioCount |-> Cardinality(failed),
                    nextAction |-> primary_next_action,
                    runtime_payload |-> [scenarioCount |-> Len(runtime_scenarios),
                                         nextAction |-> primary_next_action],
                    summary_payload |-> [ok |-> overall_ok,
                                         failedScenarioCount |-> Cardinality(failed),
                                         nextAction |-> primary_next_action]]>>
          /\ exit_code' = <<ExitCode(overall_ok)>>
    /\ run_pc' = "done"
    /\ UNCHANGED <<error_payload, session_id, navigate_fallback, normalize_reference_size,
                   scenarios, scenario, step, scenario_failed, snapshot_path, compare_attempts,
                   runtime_entry, runtime_scenarios, metrics_scenarios, warnings,
                   commands_sent>>
    /\ UNCHANGED <<resolver_vars, function_vars>>

PipelineNext ==
    \/ ResolveSession
    \/ LoadScenarios
    \/ BeginScenario
    \/ RunCommandStep
    \/ NavigateFallback
    \/ Snapshot
    \/ CompareReference
    \/ CompareWithResize
    \/ FinishScenario
    \/ ReturnSummary

PipelineSpec == PipelineInit /\ [][PipelineNext]_vars

(* ------------------------------------------------------------------ *)
(* Vocabulary of the properties                                         *)
(* ------------------------------------------------------------------ *)
Terminated == pc \in {"returned", "raised", "error"}

IsEnsure(c) == c.kind = "ensure"
IsStop(c) == c.kind = "stop"
IsNew(c) == c.kind = "new"
IsSleep(c) == c.kind = "sleep"

EnsureCalls == SelectSeq(calls, IsEnsure)
StopCalls == SelectSeq(calls, IsStop)
SleepCalls == SelectSeq(calls, IsSleep)

CallIndexes(kind) == {i \in DOMAIN calls : calls[i].kind = kind}

actions == lifecycle.actions

ActionIndexes(name) == {i \in DOMAIN actions : actions[i].action = name}

PreflightName == "preflight-resolve-target-from-cdp-list"
ResolveName == "resolve-target-from-cdp-list"

\* the health probe of a forced resolution named an active session
HealthReportedActive ==
    /\ Len(calls) > 0
    /\ calls[1].kind = "health"
    /\ calls[1].reply # NULL

(* ------------------------------------------------------------------ *)
(* C1: whatever the Core and the remote-debug endpoint answer,          *)
(* resolve_auto_session terminates (it returns or raises), and at no    *)
(* point has it issued more than 3 /session/ensure calls.               *)
(* ------------------------------------------------------------------ *)
C1_TerminatesWithinThreeEnsures ==
    /\ [](Len(EnsureCalls) <= 3 /\ attempt <= 3)
    /\ <>Terminated

C1_Witness == Terminated /\ Len(EnsureCalls) = 3

(* ------------------------------------------------------------------ *)
(* C2: with forceNewSession, once the stop stage is over: if the health *)
(* probe named an active session, exactly one /session/stop was sent    *)
(* and it comes before every /session/ensure; if it named none, no stop *)
(* was sent and lifecycle.actions holds a skipped stop-active-session   *)
(* entry with reason no-active-session.                                 *)
(* ------------------------------------------------------------------ *)
C2_ForcedStopOnceBeforeEnsure ==
    (force_new_session /\ pc # "start") =>
        /\ Len(calls) > 0 /\ calls[1].kind = "health"
        /\ IF HealthReportedActive
           THEN /\ Len(StopCalls) = 1
                /\ StopCalls[1].sessionId = calls[1].reply
                /\ \A i \in CallIndexes("ensure") : \E j \in CallIndexes("stop") : j < i
                /\ \A i \in ActionIndexes("stop-active-session") : ~actions[i].skipped
           ELSE /\ Len(StopCalls) = 0
                /\ \E i \in ActionIndexes("stop-active-session") :
                       /\ actions[i].skipped
                       /\ actions[i].reason = "no-active-session"
                       /\ actions[i].ok

C2_Witness ==
    /\ force_new_session
    /\ HealthReportedActive
    /\ Len(StopCalls) = 1
    /\ Len(EnsureCalls) >= 2

(* ------------------------------------------------------------------ *)
(* C3: with forceNewSession, a failed stop ends the resolution with     *)
(* category session-stop-failed; the failed stop is in                  *)
(* lifecycle.actions, and neither a tab listing (preflight) nor a       *)
(* /session/ensure call is ever made.                                   *)
(* ------------------------------------------------------------------ *)
StopFailed == \E i \in CallIndexes("stop") : calls[i].reply = "error"

C3_StopFailureIsTerminal ==
    (force_new_session /\ StopFailed) =>
        /\ pc = "raised"
        /\ outcome.kind = "AutoSessionResolutionError"
        /\ outcome.failure_category = "session-stop-failed"
        /\ lifecycle.failureCategory = "session-stop-failed"
        /\ \E i \in ActionIndexes("stop-active-session") :
               ~actions[i].ok /\ ~actions[i].skipped
        /\ ActionIndexes(PreflightName) = {}
        /\ CallIndexes("list") = {}
        /\ CallIndexes("ensure") = {}
        /\ lifecycle.ensureAttempts = 0

C3_Witness == force_new_session /\ StopFailed /\ Terminated



(* ------------------------------------------------------------------ *)
(* C4: the caller asked for origin-path and the preflight listing held  *)
(* exactly one page tab of that origin and path.  Then every            *)
(* /session/ensure call carries matchStrategy exact and that tab's URL, *)
(* query string included; and if the Core attaches when it is given     *)
(* that URL, the resolution has returned with ensureAttempts = 1 after  *)
(* a single ensure call.                                                *)
(* ------------------------------------------------------------------ *)
PreflightFoundOne ==
    \E i \in ActionIndexes(PreflightName) : actions[i].ok /\ actions[i].matchCount = 1

PreflightUrl == actions[CHOOSE i \in ActionIndexes(PreflightName) : TRUE].resolvedTabUrl

CoreAttached == \A i \in CallIndexes("ensure") : calls[i].reply = "session"

PreflightAmbiguous ==
    \E i \in ActionIndexes(PreflightName) :
        actions[i].errorCode = "AMBIGUOUS_TARGET" /\ actions[i].matchCount = 2

C5_AmbiguousPreflightIsTerminal ==
    (caller_match_strategy # "exact" /\ PreflightAmbiguous) =>
        /\ Len(EnsureCalls) = 0
        /\ Terminated =>
               /\ pc = "raised"
               /\ outcome.error_code = "AMBIGUOUS_TARGET"
               /\ lifecycle.fallbackUsed

(* ------------------------------------------------------------------ *)
(* C6: the first ensure attempt failed with target-not-found and the    *)
(* resolver, run next, found exactly one tab.  Then a second attempt    *)
(* follows; it carries matchStrategy exact and the resolved URL, and no *)
(* tab-open request comes before it; if the Core attaches on it, the    *)
(* resolution has returned with ensureAttempts = 2 and no tab was       *)
(* opened.                                                              *)
(* ------------------------------------------------------------------ *)
FirstAttemptResolvedAt(i) ==
    /\ i \in DOMAIN actions /\ i + 1 \in DOMAIN actions
    /\ actions[i].action = "ensure-session"
    /\ actions[i].attempt = 1
    /\ ~actions[i].ok
    /\ actions[i].failureCategory = "target-not-found"
    /\ actions[i + 1].action = ResolveName
    /\ actions[i + 1].ok
    /\ actions[i + 1].matchCount = 1

C7_AmbiguousAfterNotFoundIsTerminal ==
    \A i \in ActionIndexes(ResolveName) :
        (actions[i].errorCode = "AMBIGUOUS_TARGET") =>
            /\ i > 1
            /\ actions[i - 1].action = "ensure-session"
            /\ actions[i - 1].failureCategory = "target-not-found"
            /\ i = Len(actions)
            /\ calls[Len(calls)].kind = "list"
            /\ pc = "raised"
            /\ outcome.kind = "AutoSessionResolutionError"
            /\ outcome.failure_category = "ambiguous-target"
            /\ outcome.error_code = "AMBIGUOUS_TARGET"
            /\ lifecycle.failureCategory = "ambiguous-target"

\* ambiguity on the first attempt, with tab opening enabled
C7_Witness ==
    /\ open_tab_if_missing
    /\ ~opened_tab_for_target_recovery
    /\ attempt = 1
    /\ \E i \in ActionIndexes(ResolveName) : actions[i].errorCode = "AMBIGUOUS_TARGET"


(* ------------------------------------------------------------------ *)
(* C8: tab opening during one resolution.                               *)
(* ------------------------------------------------------------------ *)
OpenName == "open-tab-if-missing"

\* the ensure entry the tab-open at i recovers from: the last one before i
EnsureBefore(i) ==
    CHOOSE j \in 1..(i - 1) :
        /\ actions[j].action = "ensure-session"
        /\ \A k \in (j + 1)..(i - 1) : actions[k].action # "ensure-session"

\* an ensure call was sent after the last request of the tab-open
EnsureFollowsOpen ==
    \E i \in CallIndexes("ensure") : \A j \in CallIndexes("new") : j < i

\* at most one tab-open, only after a target-not-found failure, never when
\* disabled; and once a tab was opened, a further target-not-found that the
\* resolver does not settle ends the resolution
C8_OpenAtMostOnce ==
    /\ Cardinality(ActionIndexes(OpenName)) <= 1
    /\ Cardinality({i \in CallIndexes("new") : calls[i].reply = "PUT"}) <= 1
    /\ Cardinality({i \in CallIndexes("new") : calls[i].reply = "GET"}) <= 1
    /\ (~open_tab_if_missing) => (ActionIndexes(OpenName) = {} /\ CallIndexes("new") = {})
    /\ (pc = "open") =>
           /\ ActionIndexes(OpenName) = {}
           /\ open_tab_if_missing
           /\ actions[Len(actions)].action \in {"ensure-session", ResolveName}
    /\ \A i \in ActionIndexes(OpenName) :
           /\ \E j \in 1..(i - 1) : actions[j].action = "ensure-session"
           /\ ~actions[EnsureBefore(i)].ok
           /\ actions[EnsureBefore(i)].failureCategory = "target-not-found"
           /\ \A k \in (EnsureBefore(i) + 1)..(i - 1) :
                  actions[k].action = ResolveName /\ ~actions[k].ok
           /\ \A j \in (i + 1)..Len(actions) :
                  (/\ actions[i].ok
                   /\ actions[j].action = "ensure-session"
                   /\ actions[j].failureCategory = "target-not-found") =>
                      \/ j = Len(actions) /\ pc \in {"resolve", "raised"}
                      \/ /\ j + 1 = Len(actions)
                         /\ actions[j + 1].action = ResolveName
                         /\ \/ actions[j + 1].ok
                            \/ pc = "raised"
                      \/ j + 1 < Len(actions) /\ actions[j + 1].ok

C9_OpenTabFailureIsTerminal ==
    \A i \in ActionIndexes(OpenName) :
        (~actions[i].ok) =>
            /\ i = Len(actions)
            /\ pc = "raised"
            /\ outcome.kind = "AutoSessionResolutionError"
            /\ outcome.failure_category = "open-tab-failed"
            /\ calls[Len(calls)].kind = "new"
            /\ ~EnsureFollowsOpen

\* the GET fallback was tried too before the failure was raised
C9_Witness ==
    /\ \E i \in ActionIndexes(OpenName) : ~actions[i].ok /\ actions[i].method = "GET"
    /\ pc = "raised"
    /\ attempt < 3

(* ------------------------------------------------------------------ *)
(* C10: an ensure attempt n < 3 that fails with cdp-unavailable is      *)
(* followed by a retry-after-backoff entry, a wait of 0.4 * n seconds   *)
(* (times are in hundredths of a second) and attempt n + 1; there are   *)
(* at most 2 backoffs; cdp-unavailable on attempt 3 ends the resolution *)
(* with category cdp-unavailable.                                       *)
(* ------------------------------------------------------------------ *)
BackoffName == "retry-after-backoff"

CdpUnavailableAt(i) ==
    /\ actions[i].action = "ensure-session"
    /\ ~actions[i].ok
    /\ actions[i].failureCategory = "cdp-unavailable"

\* the backoff entry at i is the k-th backoff; the k-th sleep is calls[SleepIndex(k)]
BackoffOrdinal(i) == Cardinality({j \in ActionIndexes(BackoffName) : j <= i})

SleepIndex(k) ==
    CHOOSE i \in CallIndexes("sleep") :
        Cardinality({j \in CallIndexes("sleep") : j <= i}) = k

C10_LinearBackoffBounded ==
    /\ Cardinality(ActionIndexes(BackoffName)) <= 2
    /\ Len(SleepCalls) <= 2
    /\ Len(SleepCalls) = Cardinality(ActionIndexes(BackoffName))
    /\ \A k \in DOMAIN SleepCalls :
           \E i \in ActionIndexes(BackoffName) :
               /\ actions[i].seconds = SleepCalls[k].seconds
               /\ Cardinality({j \in ActionIndexes(BackoffName) : j <= i}) = k
    /\ \A i \in DOMAIN actions :
           CdpUnavailableAt(i) =>
               LET n == actions[i].attempt
               IN IF n < 3
                  THEN \/ i = Len(actions) /\ pc = "backoff" /\ attempt = n
                       \/ /\ i + 1 \in DOMAIN actions
                          /\ actions[i + 1].action = BackoffName
                          /\ actions[i + 1].attempt = n
                          /\ actions[i + 1].seconds = 40 * n
                          /\ actions[i + 1].seconds = IF n = 1 THEN 40 ELSE 80
                          /\ calls[SleepIndex(BackoffOrdinal(i + 1)) - 1].kind = "ensure"
                          /\ calls[SleepIndex(BackoffOrdinal(i + 1))].seconds = 40 * n
                          /\ \/ /\ i + 1 = Len(actions)
                                /\ SleepIndex(BackoffOrdinal(i + 1)) = Len(calls)
                                /\ pc = "ensure"
                                /\ attempt = n + 1
                             \/ /\ Len(EnsureCalls) >= n + 1
                                /\ calls[SleepIndex(BackoffOrdinal(i + 1)) + 1].kind = "ensure"
                  ELSE /\ i = Len(actions)
                       /\ pc = "raised"
                       /\ outcome.failure_category = "cdp-unavailable"
                       /\ calls[Len(calls)].kind = "ensure"

\* two backoffs, then cdp-unavailable once more on attempt 3
C10_Witness ==
    /\ Len(SleepCalls) = 2
    /\ SleepCalls[1].seconds = 40
    /\ SleepCalls[2].seconds = 80
    /\ pc = "raised"
    /\ outcome.failure_category = "cdp-unavailable"
    /\ lifecycle.ensureAttempts = 3

(* ------------------------------------------------------------------ *)
(* C11: an ensure attempt that fails with category                      *)
(* session-already-running, validation-error or session-ensure-failed   *)
(* ends the resolution on that attempt: the failure raised carries that *)
(* category, the failed ensure-session entry is the last entry of       *)
(* lifecycle.actions and the ensure call is the last request made (no   *)
(* listing, tab-open, wait or ensure call follows it).                  *)
(* ------------------------------------------------------------------ *)
TerminalCategories == {"session-already-running", "validation-error", "session-ensure-failed"}

FailedEnsureIndexes == {i \in ActionIndexes("ensure-session") : ~actions[i].ok}

C11_UnrecoverableCategoryIsTerminal ==
    \A i \in FailedEnsureIndexes :
        (actions[i].failureCategory \in TerminalCategories) =>
            /\ i = Len(actions)
            /\ calls[Len(calls)].kind = "ensure"
            /\ Len(EnsureCalls) = actions[i].attempt
            /\ lifecycle.ensureAttempts = actions[i].attempt
            /\ pc = "raised"
            /\ outcome.kind = "AutoSessionResolutionError"
            /\ outcome.message = "session ensure failed"
            /\ outcome.failure_category = actions[i].failureCategory
            /\ outcome.error_code = actions[i].errorCode
            /\ lifecycle.failureCategory = actions[i].failureCategory

\* a validation error on the second attempt, the first having been retried
C11_Witness ==
    /\ pc = "raised"
    /\ outcome.failure_category = "validation-error"
    /\ lifecycle.ensureAttempts = 2
    /\ Len(SleepCalls) = 1

(* ------------------------------------------------------------------ *)
(* C12: when the third ensure attempt fails and its recovery (a tab     *)
(* found by the resolver, or a tab opened) asks for another attempt,    *)
(* the resolution ends with 'retry limit exceeded', and the failure     *)
(* category it carries is not the category of any failed attempt.       *)
(* ------------------------------------------------------------------ *)
ThirdAttemptAsksForRetry ==
    /\ Terminated
    /\ \E i \in FailedEnsureIndexes : actions[i].attempt = SESSION_ENSURE_RETRY_LIMIT
    /\ actions[Len(actions)].action \in {ResolveName, OpenName}
    /\ actions[Len(actions)].ok

C12_RetryLimitExceededIsDistinct ==
    ThirdAttemptAsksForRetry =>
        /\ pc = "raised"
        /\ outcome.kind = "AutoSessionResolutionError"
        /\ outcome.message = "retry limit exceeded"
        /\ Cardinality(FailedEnsureIndexes) = SESSION_ENSURE_RETRY_LIMIT
        /\ \A i \in FailedEnsureIndexes :
               outcome.failure_category # actions[i].failureCategory

(* ------------------------------------------------------------------ *)
(* C13: classify_session_failure returns a category for every pair of   *)
(* error code and HTTP status, the first that applies of: code          *)
(* TARGET_NOT_FOUND -> target-not-found; code CDP_UNAVAILABLE or status *)
(* 503 -> cdp-unavailable; code SESSION_ALREADY_RUNNING or status 409   *)
(* -> session-already-running; status 422 -> validation-error;          *)
(* otherwise session-ensure-failed.                                     *)
(* ------------------------------------------------------------------ *)
FailureCategories ==
    {"target-not-found", "cdp-unavailable", "session-already-running",
     "validation-error", "session-ensure-failed"}

C13_ClassificationOrder ==
    classify_call.made =>
        LET code == classify_call.error.error_code
            status == classify_call.error.status
            category == classify_call.returned
            first == code = "TARGET_NOT_FOUND"
            second == code = "CDP_UNAVAILABLE" \/ status = 503
            third == code = "SESSION_ALREADY_RUNNING" \/ status = 409
            fourth == status = 422
        IN /\ category \in FailureCategories
           /\ first => category = "target-not-found"
           /\ (~first /\ second) => category = "cdp-unavailable"
           /\ (~first /\ ~second /\ third) => category = "session-already-running"
           /\ (~first /\ ~second /\ ~third /\ fourth) => category = "validation-error"
           /\ (~first /\ ~second /\ ~third /\ ~fourth) => category = "session-ensure-failed"

\* the code names one category and the status another: the code wins
C13_Witness ==
    /\ classify_call.made
    /\ classify_call.error.error_code = "TARGET_NOT_FOUND"
    /\ classify_call.error.status = 503
    /\ classify_call.returned = "target-not-found"

(* ------------------------------------------------------------------ *)
(* C14: for every listing, requested URL and strategy, the resolver     *)
(* counts the entries of type page that match under the strategy and    *)
(* no others; it returns ok with the URL and the id of the matching     *)
(* entry iff the count is 1, TARGET_NOT_FOUND iff it is 0 and           *)
(* AMBIGUOUS_TARGET iff it is more than 1; with a count other than 1    *)
(* it returns no resolved URL.                                          *)
(* ------------------------------------------------------------------ *)
\* positions in the listing of the page entries that match
MatchingPages(listing, requested_url, match_strategy) ==
    {i \in DOMAIN listing :
        /\ listing[i].type = "page"
        /\ urls_match(listing[i].url, requested_url, match_strategy)}

C14_ResolverCountsMatchingPages ==
    (resolve_call.made /\ resolve_call.reply.kind = "array") =>
        LET matching == MatchingPages(resolve_call.reply.items, resolve_call.tab_url,
                                      resolve_call.match_strategy)
            count == Cardinality(matching)
            result == resolve_call.returned
        IN /\ result.matchCount = count
           /\ result.ok <=> count = 1
           /\ (result.errorCode = "TARGET_NOT_FOUND") <=> count = 0
           /\ (result.errorCode = "AMBIGUOUS_TARGET") <=> count > 1
           /\ (count = 1) =>
                  /\ result.errorCode = NULL
                  /\ result.targetId \in matching
                  /\ result.resolvedTabUrl = resolve_call.reply.items[result.targetId].url
           /\ (count # 1) => (result.resolvedTabUrl = NoUrl /\ result.targetId = 0)

\* a worker at the requested URL is passed over for the one page that matches
C14_Witness ==
    /\ resolve_call.made
    /\ resolve_call.match_strategy = "origin-path"
    /\ resolve_call.tab_url = UrlRoot
    /\ Len(resolve_call.reply.items) = 2
    /\ resolve_call.reply.items[1] = [url |-> UrlRoot, type |-> "service_worker"]
    /\ resolve_call.reply.items[2] = [url |-> UrlQuery, type |-> "page"]
    /\ resolve_call.returned.ok
    /\ resolve_call.returned.resolvedTabUrl = UrlQuery
    /\ resolve_call.returned.targetId = 2

\* ---------------------------------------------------------------------------
\* Vocabulary of the properties of run_pipeline

\* the scenarios whose runtime entry is finished, and the one being run
Finished(k) == k \in DOMAIN runtime_scenarios
InProgress(k) ==
    k = scenario /\ run_pc \in {"commands", "fallback", "snapshot", "compare", "resize", "finish"}
Started(k) == Finished(k) \/ InProgress(k)
StartedScenarios == {k \in DOMAIN scenarios : Started(k)}

\* the runtime entry of a started scenario
EntryOf(k) == IF Finished(k) THEN runtime_scenarios[k] ELSE runtime_entry

\* the commands sent to Core for scenario k, in the order they were sent
RequestsOf(k) ==
    LET OfScenario(request) == request.scenario = k
    IN SelectSeq(commands_sent, OfScenario)

IsCompareRequest(request) == request.command = "compare-reference"
CompareRequestsOf(k) == SelectSeq(RequestsOf(k), IsCompareRequest)

\* the record at j is of the evaluate sent in place of a failed navigate
IsFallbackRecord(entry, j) ==
    j \in DOMAIN entry.commands /\ entry.commands[j].fallbackFor = "navigate"

\* the command recorded at j failed and no fallback was sent for it
UnrecoveredCommandFailure(k, entry, j) ==
    /\ ~entry.commands[j].ok
    /\ ~IsFallbackRecord(entry, j + 1)
    /\ ~(InProgress(k) /\ run_pc = "fallback" /\ j = Len(entry.commands))

\* a step of the scenario was refused before anything was sent for it
StepRefused(entry) ==
    entry.nextAction # <<>> /\ entry.nextAction[1].source = "scenario-definition"

SnapshotFailed(entry) ==
    entry.snapshot # <<>> /\ (~entry.snapshot[1].ok \/ entry.snapshot[1].path = NULL)

ComparisonFailed(entry) ==
    entry.compareReference # <<>> /\ ~entry.compareReference[1].ok

\* scenario k sends nothing more: it is finished or at the end of its iteration
SendsNoMore(k) == Finished(k) \/ (InProgress(k) /\ run_pc = "finish")

\* ---------------------------------------------------------------------------
\* C15: within one scenario, once a step fails without being recovered (a
\* command, the snapshot or the comparison), no further command is sent to
\* Core for that scenario: the command steps that remain, the snapshot and the
\* comparison are skipped.  A step refused before it is sent counts as a
\* failed command.
C15_FailFastWithinScenario ==
    \A k \in StartedScenarios :
        LET entry == EntryOf(k)
            sent == RequestsOf(k)
        IN /\ \A j \in DOMAIN entry.commands :
                  UnrecoveredCommandFailure(k, entry, j) =>
                      /\ j = Len(entry.commands)
                      /\ entry.snapshot = <<>>
                      /\ entry.compareReference = <<>>
                      /\ Len(sent) = Len(entry.commands)
                      /\ SendsNoMore(k)
           /\ StepRefused(entry) =>
                  /\ entry.snapshot = <<>>
                  /\ entry.compareReference = <<>>
                  /\ Len(sent) = Len(entry.commands)
                  /\ SendsNoMore(k)
           /\ SnapshotFailed(entry) =>
                  /\ entry.compareReference = <<>>
                  /\ Len(sent) = Len(entry.commands) + 1
                  /\ sent[Len(sent)].command = "snapshot"
                  /\ SendsNoMore(k)
           /\ ComparisonFailed(entry) =>
                  /\ sent[Len(sent)].command = "compare-reference"
                  /\ SendsNoMore(k)

\* the first of two scenarios failed at its first command, with two more
\* steps and a reference image still to come: nothing else was sent for it,
\* and the run went on to the second scenario
C15_Witness ==
    /\ run_pc = "done"
    /\ Len(scenarios) = 2
    /\ scenarios[1].commands = 2
    /\ scenarios[1].referenceImagePath # NULL
    /\ Len(runtime_scenarios[1].commands) = 1
    /\ UnrecoveredCommandFailure(1, runtime_scenarios[1], 1)
    /\ Len(RequestsOf(1)) = 1
    /\ runtime_scenarios[2].snapshot # <<>>

\* ---------------------------------------------------------------------------
\* C16: scenarios are independent.  The run appends exactly one runtime entry
\* and one metrics entry per scenario of the file, in the order of the file; a
\* failed scenario is followed by the next one, which starts at its first
\* command, under the same session id, and fails only on errors of its own.
C16_ScenariosAreIndependent ==
    /\ Len(runtime_scenarios) = Len(metrics_scenarios)
    /\ Len(runtime_scenarios) <= Len(scenarios)
    /\ \A k \in DOMAIN runtime_scenarios :
           /\ runtime_scenarios[k].name = scenarios[k].name
           /\ metrics_scenarios[k].name = scenarios[k].name
           /\ runtime_scenarios[k].ok <=> runtime_scenarios[k].errors = <<>>
           /\ metrics_scenarios[k].ok = runtime_scenarios[k].ok
    /\ run_pc \in {"summary", "done"} => Len(runtime_scenarios) = Len(scenarios)
    /\ run_pc \notin {"idle", "summary", "done"} => scenario = Len(runtime_scenarios) + 1
    /\ run_pc = "done" => run_result[1].scenarioCount = Len(scenarios)
    /\ \A k \in StartedScenarios :
           LET sent == RequestsOf(k)
           IN /\ InProgress(k) => (scenario_failed <=> runtime_entry.errors # <<>>)
              /\ \A i \in DOMAIN sent : sent[i].sessionId = session_id
              /\ sent # <<>> =>
                     IF scenarios[k].commands > 0
                     THEN sent[1].step = 1 /\ sent[1].command \in SupportedCommands
                     ELSE sent[1].command = "snapshot"
    /\ \A i \in DOMAIN commands_sent :
           i > 1 => commands_sent[i - 1].scenario <= commands_sent[i].scenario

\* the first scenario failed, and the second one ran from its first command
\* to a snapshot and was recorded as passed
C16_Witness ==
    /\ run_pc = "done"
    /\ Len(runtime_scenarios) = 2
    /\ ~runtime_scenarios[1].ok
    /\ runtime_scenarios[2].ok
    /\ scenarios[2].commands > 0
    /\ RequestsOf(2)[1].step = 1
    /\ runtime_scenarios[2].snapshot # <<>>
    /\ ~run_result[1].ok

\* ---------------------------------------------------------------------------
\* C17: what marks a runtime entry as failed.

SomeCommandRecordFailed(entry) == \E j \in DOMAIN entry.commands : ~entry.commands[j].ok
SnapshotRecordFailed(entry) == entry.snapshot # <<>> /\ ~entry.snapshot[1].ok
LastCommandRecordFailed(entry) ==
    entry.commands # <<>> /\ ~entry.commands[Len(entry.commands)].ok

\* C17, as stated: a runtime entry has ok = false if and only if one of its
\* recorded commands, its snapshot record or its compareReference record has
\* ok = false.
C17_FailedIffSomeRecordFailed ==
    \A k \in DOMAIN runtime_scenarios :
        LET entry == runtime_scenarios[k]
        IN ~entry.ok <=> \/ SomeCommandRecordFailed(entry)
                         \/ SnapshotRecordFailed(entry)
                         \/ ComparisonFailed(entry)

\* C17, amended: a runtime entry has ok = false if and only if a step of the
\* scenario was refused before it was sent, or the last command it recorded
\* has ok = false (a failed navigate that is followed by its evaluate
\* fallback is not the last), or its snapshot record has ok = false or holds
\* no image path, or its compareReference record has ok = false.
C17_FailedIffUnrecoveredFailure ==
    \A k \in DOMAIN runtime_scenarios :
        LET entry == runtime_scenarios[k]
        IN ~entry.ok <=> \/ StepRefused(entry)
                         \/ LastCommandRecordFailed(entry)
                         \/ SnapshotFailed(entry)
                         \/ ComparisonFailed(entry)

\* a passed entry that holds a failed navigate record, the evaluate that
\* recovered it, and a snapshot
C17_Witness ==
    \E k \in DOMAIN runtime_scenarios :
        LET entry == runtime_scenarios[k]
        IN /\ entry.ok
           /\ Len(entry.commands) = 2
           /\ entry.commands[1].command = "navigate"
           /\ ~entry.commands[1].ok
           /\ IsFallbackRecord(entry, 2)
           /\ entry.commands[2].ok
           /\ entry.snapshot # <<>>

\* ---------------------------------------------------------------------------
\* C18: the snapshot and the comparison of a scenario.

\* every step of scenario k is recorded and the last record is not a failure
CommandsCompleted(k, entry) ==
    /\ Cardinality({j \in DOMAIN entry.commands : entry.commands[j].fallbackFor = NULL})
           = scenarios[k].commands
    /\ ~LastCommandRecordFailed(entry)
    /\ ~(InProgress(k) /\ run_pc \in {"commands", "fallback"})

RequestIndexes(sent, command) == {i \in DOMAIN sent : sent[i].command = command}

\* C18: for every scenario whose command sequence completed (an empty one
\* included), exactly one snapshot command is sent, right after the last
\* command; a compare-reference command is sent if and only if that snapshot
\* succeeded with an image path and the scenario names a reference image, and
\* it is sent after the snapshot.
C18_OneSnapshotThenComparisonIfReference ==
    \A k \in StartedScenarios :
        LET entry == EntryOf(k)
            sent == RequestsOf(k)
            compared == RequestIndexes(sent, "compare-reference")
        IN (SendsNoMore(k) /\ CommandsCompleted(k, entry)) =>
               /\ RequestIndexes(sent, "snapshot") = {Len(entry.commands) + 1}
               /\ entry.snapshot # <<>>
               /\ compared # {} <=> /\ entry.snapshot[1].ok
                                    /\ entry.snapshot[1].path # NULL
                                    /\ scenarios[k].referenceImagePath # NULL
               /\ \A i \in compared : i > Len(entry.commands) + 1

\* a scenario of no commands with a reference image: one snapshot, then the
\* comparison; and one of two commands without a reference image: a snapshot
\* after the second command and no comparison
C18_Witness ==
    /\ run_pc = "done"
    /\ Len(scenarios) = 2
    /\ scenarios[1].commands = 0
    /\ scenarios[1].referenceImagePath # NULL
    /\ Len(RequestsOf(1)) = 2
    /\ RequestsOf(1)[1].command = "snapshot"
    /\ RequestsOf(1)[2].command = "compare-reference"
    /\ scenarios[2].commands = 2
    /\ scenarios[2].referenceImagePath = NULL
    /\ Len(RequestsOf(2)) = 3
    /\ RequestsOf(2)[3].command = "snapshot"
    /\ runtime_scenarios[2].snapshot[1].path # NULL

\* ---------------------------------------------------------------------------
\* C19: the evaluate fallback of navigate.

\* the record at j is of a navigate that failed with the stale-transport
\* signature while the fallback was switched on
StaleNavigateFailure(entry, j) ==
    /\ entry.commands[j].command = "navigate"
    /\ entry.commands[j].fallbackFor = NULL
    /\ ~entry.commands[j].ok
    /\ entry.commands[j].error = StaleTransportText
    /\ navigate_fallback

\* after the record at j the scenario went on: to the next step or, after the
\* last step, to the snapshot
WentOnAfter(k, entry, j) ==
    \/ j < Len(entry.commands)
    \/ StepRefused(entry)
    \/ entry.snapshot # <<>>
    \/ InProgress(k) /\ run_pc \in {"commands", "snapshot"} /\ ~scenario_failed

\* C19: a navigate that fails with the stale-transport signature, the
\* fallback being enabled, is followed at once by exactly one evaluate command
\* tagged fallbackFor navigate; the fallback is never retried; when it
\* succeeds the scenario goes on with the next step and is not marked failed
\* for it, and when it fails the scenario is marked failed and stops.
C19_StaleNavigateGetsOneEvaluateFallback ==
    \A k \in StartedScenarios :
        LET entry == EntryOf(k)
            sent == RequestsOf(k)
        IN \A j \in DOMAIN entry.commands :
               StaleNavigateFailure(entry, j) =>
                   \/ InProgress(k) /\ run_pc = "fallback" /\ j = Len(entry.commands)
                   \/ /\ IsFallbackRecord(entry, j + 1)
                      /\ entry.commands[j + 1].command = "evaluate"
                      /\ sent[j].command = "navigate"
                      /\ sent[j + 1].command = "evaluate"
                      /\ sent[j + 1].fallbackFor = "navigate"
                      /\ sent[j + 1].step = sent[j].step
                      /\ ~IsFallbackRecord(entry, j + 2)
                      /\ j + 2 \in DOMAIN sent =>
                             /\ sent[j + 2].fallbackFor = NULL
                             /\ \/ sent[j + 2].command = "snapshot"
                                \/ sent[j + 2].step = sent[j].step + 1
                      /\ IF entry.commands[j + 1].ok
                         THEN WentOnAfter(k, entry, j + 1)
                         ELSE /\ j + 1 = Len(entry.commands)
                              /\ Len(sent) = j + 1
                              /\ SendsNoMore(k)
                              /\ Finished(k) => ~entry.ok

\* a navigate failed with the signature at step 1, the evaluate that
\* followed succeeded, step 2 ran and the entry is recorded as passed
C19_Witness ==
    \E k \in DOMAIN runtime_scenarios :
        LET entry == runtime_scenarios[k]
        IN /\ Len(entry.commands) = 3
           /\ StaleNavigateFailure(entry, 1)
           /\ IsFallbackRecord(entry, 2)
           /\ entry.commands[2].ok
           /\ RequestsOf(k)[3].step = 2
           /\ entry.ok

\* ---------------------------------------------------------------------------
\* C20: compare-reference is attempted at most twice per scenario.  The first
\* attempt is always strict; a second one, with resize-reference-to-actual, is
\* made if and only if the first failed with IMAGE_DIMENSION_MISMATCH and
\* auto-resize is enabled; the attempts are kept, in order, in
\* compareReference.attempts.
C20_AtMostTwoComparisons ==
    \A k \in StartedScenarios :
        LET entry == EntryOf(k)
            compared == CompareRequestsOf(k)
        IN /\ Len(compared) <= 2
           /\ Len(compared) >= 1 => compared[1].dimensionPolicy = "strict"
           /\ Len(compared) = 2 => compared[2].dimensionPolicy = "resize-reference-to-actual"
           /\ SendsNoMore(k) =>
                  /\ entry.compareReference # <<>> <=> compared # <<>>
                  /\ entry.compareReference # <<>> =>
                         LET attempts == entry.compareReference[1].attempts
                         IN /\ Len(attempts) = Len(compared)
                            /\ \A i \in DOMAIN attempts :
                                   attempts[i].dimensionPolicy = compared[i].dimensionPolicy
                            /\ Len(attempts) = 2 <=>
                                   /\ ~attempts[1].ok
                                   /\ attempts[1].errorCode = "IMAGE_DIMENSION_MISMATCH"
                                   /\ normalize_reference_size
                            /\ entry.compareReference[1].fallbackApplied <=> Len(attempts) = 2
                            /\ entry.compareReference[1].ok = attempts[Len(attempts)].ok

\* the strict comparison failed on the dimensions, the comparison with resize
\* succeeded, and both attempts are in the record of a passed entry
C20_Witness ==
    \E k \in DOMAIN runtime_scenarios :
        LET entry == runtime_scenarios[k]
        IN /\ entry.compareReference # <<>>
           /\ Len(entry.compareReference[1].attempts) = 2
           /\ entry.compareReference[1].attempts[1].errorCode = "IMAGE_DIMENSION_MISMATCH"
           /\ entry.compareReference[1].attempts[2].ok
           /\ entry.compareReference[1].attempts[2].dimensionPolicy = "resize-reference-to-actual"
           /\ Len(CompareRequestsOf(k)) = 2
           /\ entry.ok

\* ---------------------------------------------------------------------------
\* C21: after a strict comparison that failed on the dimensions, auto-resize
\* being enabled, compareReference.fallbackApplied is true only if the second
\* attempt, the one with resize, succeeded.
C21_FallbackAppliedOnlyIfResizeSucceeded ==
    \A k \in DOMAIN runtime_scenarios :
        LET entry == runtime_scenarios[k]
        IN entry.compareReference # <<>> =>
               LET attempts == entry.compareReference[1].attempts
               IN (/\ ~attempts[1].ok
                   /\ attempts[1].errorCode = "IMAGE_DIMENSION_MISMATCH"
                   /\ normalize_reference_size
                   /\ entry.compareReference[1].fallbackApplied)
                      => Len(attempts) = 2 /\ attempts[2].ok

(* ------------------------------------------------------------------ *)
(* Failure Classifier: build_failure_next_action                        *)
(* ------------------------------------------------------------------ *)
PIPELINE_RETRY_BASE_COMMAND ==
    "python3 \"${CODEX_HOME:-$HOME/.codex}/skills/fix-app-bugs/scripts/terminal_probe_pipeline.py\" "
    \o "--project-root <project-root> --session-id auto --tab-url <url> "
    \o "--tab-url-match-strategy origin-path --scenarios <scenarios.json> --json"
PIPELINE_RETRY_FORCE_RECOVERY_COMMAND ==
    PIPELINE_RETRY_BASE_COMMAND \o " --force-new-session --open-tab-if-missing"
PIPELINE_RETRY_EXACT_COMMAND ==
    PIPELINE_RETRY_BASE_COMMAND \o " --tab-url-match-strategy exact --no-open-tab-if-missing"
PIPELINE_RETRY_TIMEOUT_COMMAND == PIPELINE_RETRY_FORCE_RECOVERY_COMMAND \o " --timeout-ms 30000"
SESSION_START_COMMAND == "npm run agent:session -- --tab-url <url> --match-strategy origin-path"
SESSION_RESTART_COMMAND == "npm run agent:stop && " \o SESSION_START_COMMAND
VISUAL_START_RECOVERY_COMMAND ==
    "python3 \"${CODEX_HOME:-$HOME/.codex}/skills/fix-app-bugs/scripts/visual_debug_start.py\" "
    \o "--project-root <project-root> --actual-app-url <url> --auto-recover-session --json"

\* A text is the sequence of its words; NULL stands for None.  The hints are
\* looked for in the lower-cased text.
STALE_TRANSPORT_HINTS ==
    {<<"websocket">>, <<"readystate", "3">>, <<"closed">>, <<"target", "closed">>,
     <<"session", "closed">>, <<"cdp", "client", "is", "not", "attached">>,
     <<"socket", "hang", "up">>, <<"econnreset">>}

\* str.lower() on one word
LowerWord(word) ==
    CASE word = "WebSocket" -> "websocket"
      [] word = "readyState" -> "readystate"
      [] word = "Invalid" -> "invalid"
      [] word = "WebGL" -> "webgl"
      [] word = "Context" -> "context"
      [] OTHER -> word

Lower(text) == [i \in DOMAIN text |-> LowerWord(text[i])]

\* str(value or "")
TextOrEmpty(text) == IF text = NULL THEN <<>> ELSE text

\* hint in text
Contains(text, hint) ==
    \E i \in 1..(Len(text) - Len(hint) + 1) : SubSeq(text, i, i + Len(hint) - 1) = hint

is_stale_transport_error(error_message, response_body_snippet) ==
    LET text == Lower(TextOrEmpty(error_message) \o TextOrEmpty(response_body_snippet))
    IN \E hint \in STALE_TRANSPORT_HINTS : Contains(text, hint)

\* error codes as they may arrive: blank, in lower case, padded
RawErrorCodes ==
    {NULL, "   ", "TARGET_NOT_FOUND", "SESSION_ALREADY_RUNNING", "CDP_UNAVAILABLE",
     "AMBIGUOUS_TARGET", "IMAGE_DIMENSION_MISMATCH", "COMMAND_TIMEOUT", "FILE_NOT_FOUND",
     "VALIDATION_ERROR", "UNSUPPORTED_IMAGE_FORMAT", " validation_error ", "target_not_found"}

\* error_code.strip().upper(), None for a blank one
NormalizedCode(error_code) ==
    CASE error_code = NULL -> NULL
      [] error_code = "   " -> NULL
      [] error_code = " validation_error " -> "VALIDATION_ERROR"
      [] error_code = "target_not_found" -> "TARGET_NOT_FOUND"
      [] OTHER -> error_code

\* failure categories as they may arrive
RawFailureCategories ==
    {NULL, "", "target-not-found", "session-already-running", "cdp-unavailable",
     "ambiguous-target", "validation-error", "session-ensure-failed", " CDP-Unavailable "}

\* failure_category.strip().lower(), None for a blank one
NormalizedCategory(failure_category) ==
    CASE failure_category = NULL -> NULL
      [] failure_category = "" -> NULL
      [] failure_category = " CDP-Unavailable " -> "cdp-unavailable"
      [] OTHER -> failure_category

NextAction(id, label, reason, command, source) ==
    [id |-> id, label |-> label, reason |-> reason, command |-> command, source |-> source]

\* faulty variant (C22): the error-code rules are tried before the rules on
\* the failure category
build_failure_next_action_code_first(source, error_code, error_message, response_body_snippet, failure_category) ==
    LET normalized_code == NormalizedCode(error_code)
        normalized_category == NormalizedCategory(failure_category)
    IN IF normalized_code = "IMAGE_DIMENSION_MISMATCH"
       THEN NextAction("normalize-reference-size", "Retry with resize fallback",
                       "Reference/actual image dimensions differ.",
                       PIPELINE_RETRY_BASE_COMMAND, source)
       ELSE IF normalized_code = "COMMAND_TIMEOUT"
       THEN NextAction("increase-timeout", "Retry with longer timeout",
                       "Command exceeded timeout window before completion.",
                       PIPELINE_RETRY_TIMEOUT_COMMAND, source)
       ELSE IF normalized_category = "target-not-found" \/ normalized_code = "TARGET_NOT_FOUND"
       THEN NextAction("open-tab-recovery", "Open missing tab and retry",
                       "Target tab was not found while ensuring session.",
                       PIPELINE_RETRY_FORCE_RECOVERY_COMMAND, source)
       ELSE NextAction("rerun-terminal-probe", "Rerun terminal-probe",
                       "Collect deterministic runtime artifacts for the next failure pass.",
                       PIPELINE_RETRY_BASE_COMMAND, source)

\* faulty variant (C23): the command of the default action depends on who asks
build_failure_next_action_by_source(source, error_code, error_message, response_body_snippet, failure_category) ==
    NextAction("rerun-terminal-probe", "Rerun terminal-probe",
               "Collect deterministic runtime artifacts for the next failure pass.",
               IF source = "session-lifecycle"
               THEN PIPELINE_RETRY_FORCE_RECOVERY_COMMAND
               ELSE PIPELINE_RETRY_BASE_COMMAND,
               source)

build_failure_next_action(source, error_code, error_message, response_body_snippet, failure_category) ==
    LET normalized_code == NormalizedCode(error_code)
        normalized_category == NormalizedCategory(failure_category)
        stale_transport == is_stale_transport_error(error_message, response_body_snippet)
    IN IF normalized_category = "target-not-found" \/ normalized_code = "TARGET_NOT_FOUND"
       THEN NextAction("open-tab-recovery", "Open missing tab and retry",
                       "Target tab was not found while ensuring session.",
                       PIPELINE_RETRY_FORCE_RECOVERY_COMMAND, source)
       ELSE IF normalized_category = "session-already-running"
               \/ normalized_code = "SESSION_ALREADY_RUNNING"
       THEN NextAction("replace-active-session", "Replace active session",
                       "Active session conflict blocked ensure/reuse flow.",
                       SESSION_RESTART_COMMAND, source)
       ELSE IF normalized_category = "cdp-unavailable" \/ normalized_code = "CDP_UNAVAILABLE"
       THEN NextAction("recover-cdp-session", "Recover CDP and session",
                       "CDP endpoint/session channel is unavailable.",
                       VISUAL_START_RECOVERY_COMMAND, source)
       ELSE IF normalized_category = "ambiguous-target" \/ normalized_code = "AMBIGUOUS_TARGET"
       THEN NextAction("use-exact-target", "Use exact target match",
                       "Multiple tabs matched the requested target URL.",
                       PIPELINE_RETRY_EXACT_COMMAND, source)
       ELSE IF normalized_code = "IMAGE_DIMENSION_MISMATCH"
       THEN NextAction("normalize-reference-size", "Retry with resize fallback",
                       "Reference/actual image dimensions differ.",
                       PIPELINE_RETRY_BASE_COMMAND, source)
       ELSE IF normalized_code = "COMMAND_TIMEOUT"
       THEN NextAction("increase-timeout", "Retry with longer timeout",
                       "Command exceeded timeout window before completion.",
                       PIPELINE_RETRY_TIMEOUT_COMMAND, source)
       ELSE IF normalized_code = "FILE_NOT_FOUND"
       THEN NextAction("verify-reference-path", "Verify file path",
                       "A referenced file path could not be resolved.",
                       "ls -l <reference-image-path>", source)
       ELSE IF normalized_code = "VALIDATION_ERROR"
       THEN IF stale_transport
            THEN NextAction("stale-transport-retry", "Retry with fresh session",
                            "Validation error indicates stale/closed transport state.",
                            PIPELINE_RETRY_FORCE_RECOVERY_COMMAND, source)
            ELSE NextAction("fix-scenario-payload", "Fix scenario payload and retry",
                            "Validation failed for scenario command payload.",
                            PIPELINE_RETRY_BASE_COMMAND, source)
       ELSE NextAction("rerun-terminal-probe", "Rerun terminal-probe",
                       "Collect deterministic runtime artifacts for the next failure pass.",
                       PIPELINE_RETRY_BASE_COMMAND, source)

\* who asks for the next action
NextActionSources == {"session-lifecycle", "scenario-command", "pipeline"}

ErrorMessages ==
    {NULL, <<"WebSocket", "is", "not", "open:", "readyState", "3">>,
     <<"Invalid", "payload">>, <<"socket">>}

BodySnippets == {NULL, <<"hang", "up">>}

\* most calls of build_failure_next_action in one history
MaxCalls == 2

NextActionInit ==
    /\ ResolverIdle
    /\ PipelineIdle
    /\ classify_call = NoCall
    /\ resolve_call = NoCall
    /\ VerdictIdle /\ OpenTabIdle /\ BootstrapIdle /\ VisualStartIdle
    /\ next_action_calls = <<>>

NextActionCall(source, error_code, error_message, response_body_snippet, failure_category) ==
    [source |-> source, error_code |-> error_code, error_message |-> error_message,
     response_body_snippet |-> response_body_snippet,
     failure_category |-> failure_category,
     returned |-> build_failure_next_action(source, error_code, error_message,
                                            response_body_snippet, failure_category)]

\* a first call, with any arguments
BuildFailureNextAction ==
    /\ next_action_calls = <<>>
    /\ \E source \in NextActionSources, error_code \in RawErrorCodes,
          error_message \in ErrorMessages, response_body_snippet \in BodySnippets,
          failure_category \in RawFailureCategories :
         next_action_calls' =
             <<NextActionCall(source, error_code, error_message, response_body_snippet,
                              failure_category)>>
    /\ UNCHANGED <<resolver_vars, pipeline_vars, classify_call, resolve_call,
                   verdict_call, open_tab_call, bootstrap_call, visual_start>>

\* the classifier is run again on the tuple of the call before, for any source
BuildFailureNextActionAgain ==
    /\ next_action_calls # <<>>
    /\ Len(next_action_calls) < MaxCalls
    /\ \E source \in NextActionSources :
         LET before == next_action_calls[Len(next_action_calls)]
         IN next_action_calls' =
                Append(next_action_calls,
                       NextActionCall(source, before.error_code, before.error_message,
                                      before.response_body_snippet,
                                      before.failure_category))
    /\ UNCHANGED <<resolver_vars, pipeline_vars, classify_call, resolve_call,
                   verdict_call, open_tab_call, bootstrap_call, visual_start>>

NextActionNext == BuildFailureNextAction \/ BuildFailureNextActionAgain

NextActionSpec == NextActionInit /\ [][NextActionNext]_vars

\* ---------------------------------------------------------------------------
\* Vocabulary of the properties of the Failure Classifier

\* the rules that look at the failure category or at the error code, in order
CategoryRules ==
    <<[category |-> "target-not-found", code |-> "TARGET_NOT_FOUND",
       id |-> "open-tab-recovery"],
      [category |-> "session-already-running", code |-> "SESSION_ALREADY_RUNNING",
       id |-> "replace-active-session"],
      [category |-> "cdp-unavailable", code |-> "CDP_UNAVAILABLE",
       id |-> "recover-cdp-session"],
      [category |-> "ambiguous-target", code |-> "AMBIGUOUS_TARGET",
       id |-> "use-exact-target"]>>

\* the rules that look at the error code alone, in order
CodeRules ==
    <<[code |-> "IMAGE_DIMENSION_MISMATCH", id |-> "normalize-reference-size"],
      [code |-> "COMMAND_TIMEOUT", id |-> "increase-timeout"],
      [code |-> "FILE_NOT_FOUND", id |-> "verify-reference-path"]>>

CategoryRuleMatches(r, call) ==
    \/ NormalizedCategory(call.failure_category) = CategoryRules[r].category
    \/ NormalizedCode(call.error_code) = CategoryRules[r].code

NoCategoryRuleMatches(call) == \A r \in DOMAIN CategoryRules : ~CategoryRuleMatches(r, call)

SameTuple(a, b) ==
    /\ a.error_code = b.error_code
    /\ a.error_message = b.error_message
    /\ a.response_body_snippet = b.response_body_snippet
    /\ a.failure_category = b.failure_category

\* ---------------------------------------------------------------------------
\* C22: build_failure_next_action returns the action of the first rule that
\* matches, in the order target-not-found, session-already-running,
\* cdp-unavailable, ambiguous-target (each by failure category or by error
\* code), then by error code IMAGE_DIMENSION_MISMATCH, COMMAND_TIMEOUT,
\* FILE_NOT_FOUND, VALIDATION_ERROR (stale-transport-retry or
\* fix-scenario-payload), and rerun-terminal-probe when no rule matches.
C22_FirstMatchingRuleWins ==
    \A i \in DOMAIN next_action_calls :
        LET call == next_action_calls[i]
            code == NormalizedCode(call.error_code)
            id == call.returned.id
            stale == is_stale_transport_error(call.error_message,
                                              call.response_body_snippet)
        IN /\ \A r \in DOMAIN CategoryRules :
                  id = CategoryRules[r].id <=>
                      /\ CategoryRuleMatches(r, call)
                      /\ \A q \in 1..(r - 1) : ~CategoryRuleMatches(q, call)
           /\ \A r \in DOMAIN CodeRules :
                  id = CodeRules[r].id <=>
                      NoCategoryRuleMatches(call) /\ code = CodeRules[r].code
           /\ id = "stale-transport-retry" <=>
                  NoCategoryRuleMatches(call) /\ code = "VALIDATION_ERROR" /\ stale
           /\ id = "fix-scenario-payload" <=>
                  NoCategoryRuleMatches(call) /\ code = "VALIDATION_ERROR" /\ ~stale
           /\ id = "rerun-terminal-probe" <=>
                  /\ NoCategoryRuleMatches(call)
                  /\ code # "VALIDATION_ERROR"
                  /\ \A r \in DOMAIN CodeRules : code # CodeRules[r].code

\* the fourth rule matches by the category and the first by the error code:
\* the first wins
C22_Witness ==
    \E i \in DOMAIN next_action_calls :
        LET call == next_action_calls[i]
        IN /\ call.failure_category = "ambiguous-target"
           /\ call.error_code = "TARGET_NOT_FOUND"
           /\ CategoryRuleMatches(1, call)
           /\ CategoryRuleMatches(4, call)
           /\ call.returned.id = "open-tab-recovery"

\* ---------------------------------------------------------------------------
\* C23: the Failure Classifier is deterministic: two calls with the same
\* (errorCode, errorMessage, bodySnippet, failureCategory) return the same id,
\* label and command, whatever the source tag and whatever was asked before.
C23_SameTupleSameAction ==
    \A i, j \in DOMAIN next_action_calls :
        SameTuple(next_action_calls[i], next_action_calls[j]) =>
            /\ next_action_calls[i].returned.id = next_action_calls[j].returned.id
            /\ next_action_calls[i].returned.label = next_action_calls[j].returned.label
            /\ next_action_calls[i].returned.command = next_action_calls[j].returned.command

\* the same tuple was classified for the pipeline and then for the session
\* lifecycle: both calls returned the default action
C23_Witness ==
    /\ Len(next_action_calls) = 2
    /\ next_action_calls[1].source = "pipeline"
    /\ next_action_calls[2].source = "session-lifecycle"
    /\ SameTuple(next_action_calls[1], next_action_calls[2])
    /\ next_action_calls[1].returned.id = "rerun-terminal-probe"
    /\ next_action_calls[2].returned.id = "rerun-terminal-probe"
    /\ next_action_calls[1].returned.source # next_action_calls[2].returned.source

(* ------------------------------------------------------------------ *)
(* The action a run surfaces, and the exit status of the process        *)
(* ------------------------------------------------------------------ *)

FailedEntries == {i \in DOMAIN runtime_scenarios : ~runtime_scenarios[i].ok}

FirstFailedEntry == CHOOSE i \in FailedEntries : \A j \in FailedEntries : i <= j

\* C24: when a run has returned, every failed scenario carries a nextAction; if
\* some scenario failed, the nextAction of the returned result, of summary.json
\* and of runtime.json is non-null and is the one recorded on the first failed
\* scenario in input order; if none failed it is null.
C24_FirstFailedScenarioNextActionSurfaced ==
    run_pc = "done" =>
        LET result == run_result[1]
        IN /\ \A i \in FailedEntries : runtime_scenarios[i].nextAction # <<>>
           /\ result.summary_payload.nextAction = result.nextAction
           /\ result.runtime_payload.nextAction = result.nextAction
           /\ IF FailedEntries = {}
              THEN result.nextAction = <<>>
              ELSE /\ result.nextAction # <<>>
                   /\ result.nextAction = runtime_scenarios[FirstFailedEntry].nextAction

\* two scenarios failed for different reasons, and the first one's action is surfaced
C24_Witness ==
    /\ run_pc = "done"
    /\ Cardinality(FailedEntries) = 2
    /\ runtime_scenarios[1].nextAction # runtime_scenarios[2].nextAction
    /\ run_result[1].nextAction = runtime_scenarios[1].nextAction

\* the process has exited
Exited == exit_code # <<>>

UnsupportedStepRefused(entry) ==
    StepRefused(entry) /\ entry.nextAction[1].error_code = "VALIDATION_ERROR"

\* the steps of the scenario that were sent (a fallback is no step)
StepRecords(entry) == {j \in DOMAIN entry.commands : entry.commands[j].fallbackFor = NULL}

\* C28: a step whose verb is not supported is never sent to the Core and never
\* skipped: a scenario that passed has a record for each of its steps, and a
\* scenario stopped at such a step is failed with a validation error and a
\* nextAction, and nothing more is sent for it: no later step, no snapshot, no
\* comparison.
C28_UnsupportedVerbFailsScenario ==
    /\ \A i \in DOMAIN commands_sent :
           commands_sent[i].command \in SupportedCommands \cup {"compare-reference"}
    /\ \A k \in StartedScenarios :
           LET entry == EntryOf(k)
           IN /\ (Finished(k) /\ entry.ok) =>
                     Cardinality(StepRecords(entry)) = scenarios[k].commands
              /\ UnsupportedStepRefused(entry) =>
                     /\ Finished(k) => ~entry.ok
                     /\ entry.errors # <<>>
                     /\ Cardinality(StepRecords(entry)) < scenarios[k].commands
                     /\ Len(RequestsOf(k)) = Len(entry.commands)
                     /\ entry.snapshot = <<>>
                     /\ entry.compareReference = <<>>
                     /\ SendsNoMore(k)

\* a scenario with a reference image was stopped at its second step, after the
\* first was sent, and the run went on to the end
C28_Witness ==
    /\ run_pc = "done"
    /\ UnsupportedStepRefused(runtime_scenarios[1])
    /\ Len(runtime_scenarios[1].commands) = 1
    /\ scenarios[1].commands = 3
    /\ scenarios[1].referenceImagePath # NULL
    /\ ~runtime_scenarios[1].ok

(* ------------------------------------------------------------------ *)
(* Verdict Builder: build_black_screen_verdict                          *)
(* ------------------------------------------------------------------ *)

\* ratios are counted in thousandths; a ratio below 0.01 is a black frame
BlackRatioLimit == 10

\* imageMetrics.nonBlackRatio of a scenario: none (the empty sequence), or a
\* ratio around the limit
NonBlackRatios == {<<>>, <<0>>, <<9>>, <<10>>, <<500>>}

\* framebufferNonBlackRatio of a scenario (extract_framebuffer_non_black_ratio)
FramebufferRatios == {<<>>, <<9>>, <<10>>}

\* runtime_entry.errors: a list of texts, each a sequence of words
ErrorLists ==
    {<<>>,
     << <<"Scenario", "command", "failed">> >>,
     << <<"WebGL", "Context", "lost">> >>,
     << <<"missing", "Context">>, <<"lost", "frame">> >>}

\* " ".join(str(item) for item in errors)
RECURSIVE JoinTexts(_)
JoinTexts(texts) == IF texts = <<>> THEN <<>> ELSE Head(texts) \o JoinTexts(Tail(texts))

render_error_hints ==
    {<<"webgl">>, <<"shader">>, <<"render">>, <<"canvas">>, <<"context", "lost">>}

HasRenderErrorText(errors) ==
    LET combined_error_text == Lower(JoinTexts(errors))
    IN \E hint \in render_error_hints : Contains(combined_error_text, hint)

\* isinstance(value, (int, float))
IsNumber(value) == value # <<>>

\* run_pipeline: the scenarios whose screenshot is black
black_frame_candidates(metrics) ==
    {i \in DOMAIN metrics :
        IsNumber(metrics[i].nonBlackRatio) /\ metrics[i].nonBlackRatio[1] < BlackRatioLimit}

\* run_pipeline: the framebuffer reports black and the screenshot does not
framebuffer_metric_mismatches(metrics) ==
    {i \in DOMAIN metrics :
        /\ IsNumber(metrics[i].framebufferNonBlackRatio)
        /\ IsNumber(metrics[i].nonBlackRatio)
        /\ metrics[i].framebufferNonBlackRatio[1] < BlackRatioLimit
        /\ metrics[i].nonBlackRatio[1] >= BlackRatioLimit}

Verdict(status, confidence, evidence) ==
    [status |-> status, confidence |-> confidence,
     sourceOfTruth |-> "screenshot-metrics-plus-runtime-errors", evidence |-> evidence]

\* faulty variant (C25): a black framebuffer counts as a black screenshot
screenshot_or_framebuffer_black_scenarios(metrics) ==
    {i \in DOMAIN metrics :
        \/ IsNumber(metrics[i].nonBlackRatio) /\ metrics[i].nonBlackRatio[1] < BlackRatioLimit
        \/ /\ IsNumber(metrics[i].framebufferNonBlackRatio)
           /\ metrics[i].framebufferNonBlackRatio[1] < BlackRatioLimit}

screenshot_black_scenarios(metrics) ==
    {i \in DOMAIN metrics :
        IsNumber(metrics[i].nonBlackRatio) /\ metrics[i].nonBlackRatio[1] < BlackRatioLimit}

\* faulty variant (C26): a ratio of exactly 0.01 counts as neither black nor non-black
screenshot_above_limit_scenarios(metrics) ==
    {i \in DOMAIN metrics :
        IsNumber(metrics[i].nonBlackRatio) /\ metrics[i].nonBlackRatio[1] > BlackRatioLimit}

screenshot_non_black_scenarios(metrics) ==
    {i \in DOMAIN metrics :
        IsNumber(metrics[i].nonBlackRatio) /\ ~(metrics[i].nonBlackRatio[1] < BlackRatioLimit)}

framebuffer_black_scenarios(metrics) ==
    {i \in DOMAIN metrics :
        /\ IsNumber(metrics[i].framebufferNonBlackRatio)
        /\ metrics[i].framebufferNonBlackRatio[1] < BlackRatioLimit}

runtime_render_error_scenarios(runtime) ==
    {i \in DOMAIN runtime : HasRenderErrorText(runtime[i].errors)}

build_black_screen_verdict(metrics, runtime, candidates, mismatches) ==
    LET evidence ==
            [screenshotBlackScenarios |-> screenshot_black_scenarios(metrics),
             screenshotNonBlackScenarios |-> screenshot_non_black_scenarios(metrics),
             framebufferBlackScenarios |-> framebuffer_black_scenarios(metrics),
             framebufferMetricMismatches |-> mismatches,
             blackFrameCandidates |-> candidates,
             runtimeRenderErrorScenarios |-> runtime_render_error_scenarios(runtime)]
    IN IF screenshot_black_scenarios(metrics) # {}
       THEN Verdict("black-screen-probable",
                    IF runtime_render_error_scenarios(runtime) # {} THEN "high" ELSE "medium",
                    evidence)
       ELSE IF runtime_render_error_scenarios(runtime) # {}
       THEN Verdict("render-errors-without-black-screenshot", "medium", evidence)
       ELSE IF mismatches # {}
       THEN Verdict("non-black-screenshot-with-framebuffer-black", "medium", evidence)
       ELSE IF screenshot_non_black_scenarios(metrics) # {}
       THEN Verdict("no-black-screen-evidence", "high", evidence)
       ELSE Verdict("insufficient-evidence", "low", evidence)

\* what a finished scenario contributes: its metrics entry and its errors
VerdictScenarios ==
    [nonBlackRatio : NonBlackRatios, framebufferNonBlackRatio : FramebufferRatios,
     errors : ErrorLists]

\* the runs the verdict is built for: one scenario or two
MaxVerdictScenarios == 2

VerdictInputs == UNION {[1..n -> VerdictScenarios] : n \in 1..MaxVerdictScenarios}

VerdictInit ==
    /\ ResolverIdle
    /\ PipelineIdle
    /\ classify_call = NoCall
    /\ resolve_call = NoCall
    /\ NextActionIdle /\ OpenTabIdle /\ BootstrapIdle /\ VisualStartIdle
    /\ verdict_call = NoCall

\* run_pipeline, after the scenarios: the black-frame lists and the verdict
BuildBlackScreenVerdict ==
    /\ verdict_call = NoCall
    /\ \E finished \in VerdictInputs :
         LET metrics == [i \in DOMAIN finished |->
                            [nonBlackRatio |-> finished[i].nonBlackRatio,
                             framebufferNonBlackRatio |->
                                 finished[i].framebufferNonBlackRatio]]
             runtime == [i \in DOMAIN finished |-> [errors |-> finished[i].errors]]
             candidates == black_frame_candidates(metrics)
             mismatches == framebuffer_metric_mismatches(metrics)
         IN verdict_call' =
                [made |-> TRUE, metrics |-> metrics, runtime |-> runtime,
                 warned |-> mismatches # {},
                 returned |-> build_black_screen_verdict(metrics, runtime, candidates,
                                                         mismatches)]
    /\ UNCHANGED <<resolver_vars, pipeline_vars, classify_call, resolve_call,
                   next_action_calls, open_tab_call, bootstrap_call, visual_start>>

VerdictNext == BuildBlackScreenVerdict

VerdictSpec == VerdictInit /\ [][VerdictNext]_vars

\* ---------------------------------------------------------------------------
\* vocabulary of the verdict claims, stated on the inputs of the call

ScreenshotBlack(scenario_metrics) ==
    scenario_metrics.nonBlackRatio # <<>> /\ scenario_metrics.nonBlackRatio[1] < 10

ScreenshotNonBlack(scenario_metrics) ==
    scenario_metrics.nonBlackRatio # <<>> /\ scenario_metrics.nonBlackRatio[1] >= 10

FramebufferBlack(scenario_metrics) ==
    /\ scenario_metrics.framebufferNonBlackRatio # <<>>
    /\ scenario_metrics.framebufferNonBlackRatio[1] < 10

AnyScreenshotBlack == \E i \in DOMAIN verdict_call.metrics : ScreenshotBlack(verdict_call.metrics[i])

AnyScreenshotNonBlack ==
    \E i \in DOMAIN verdict_call.metrics : ScreenshotNonBlack(verdict_call.metrics[i])

AnyRenderError ==
    \E i \in DOMAIN verdict_call.runtime : HasRenderErrorText(verdict_call.runtime[i].errors)

AnyMismatch ==
    \E i \in DOMAIN verdict_call.metrics :
        FramebufferBlack(verdict_call.metrics[i]) /\ ScreenshotNonBlack(verdict_call.metrics[i])

VerdictIs(status, confidence) ==
    verdict_call.returned.status = status /\ verdict_call.returned.confidence = confidence

\* C25: the verdict follows the decision table from the top: a black screenshot
\* gives black-screen-probable (high with render-error text, else medium); else
\* render-error text gives render-errors-without-black-screenshot (medium);
\* else a framebuffer/screenshot mismatch gives
\* non-black-screenshot-with-framebuffer-black (medium); else a non-black
\* screenshot gives no-black-screen-evidence (high); else insufficient-evidence
\* (low). Without a black screenshot the verdict is never black-screen-probable,
\* whatever the framebuffer ratios are.
C25_VerdictDecisionTable ==
    verdict_call.made =>
        /\ IF AnyScreenshotBlack
           THEN VerdictIs("black-screen-probable", IF AnyRenderError THEN "high" ELSE "medium")
           ELSE IF AnyRenderError
           THEN VerdictIs("render-errors-without-black-screenshot", "medium")
           ELSE IF AnyMismatch
           THEN VerdictIs("non-black-screenshot-with-framebuffer-black", "medium")
           ELSE IF AnyScreenshotNonBlack
           THEN VerdictIs("no-black-screen-evidence", "high")
           ELSE VerdictIs("insufficient-evidence", "low")
        /\ verdict_call.returned.status = "black-screen-probable" => AnyScreenshotBlack

\* the framebuffer of the only scenario reports black, its screenshot does not,
\* and the verdict is not black-screen-probable
C25_Witness ==
    /\ verdict_call.made
    /\ Len(verdict_call.metrics) = 1
    /\ FramebufferBlack(verdict_call.metrics[1])
    /\ ScreenshotNonBlack(verdict_call.metrics[1])
    /\ ~AnyRenderError
    /\ VerdictIs("non-black-screenshot-with-framebuffer-black", "medium")

AllScreenshotsNonBlack ==
    \A i \in DOMAIN verdict_call.metrics : ScreenshotNonBlack(verdict_call.metrics[i])

\* C26 as stated: with a screenshot ratio >= 0.01 for every scenario and no
\* render-error text, the verdict is no-black-screen-evidence with confidence high
C26_NonBlackScreenshotsGiveNoEvidence ==
    (verdict_call.made /\ AllScreenshotsNonBlack /\ ~AnyRenderError) =>
        VerdictIs("no-black-screen-evidence", "high")

\* C26, amended: with a screenshot ratio >= 0.01 for every scenario, no
\* render-error text and no scenario whose framebuffer ratio is below 0.01, the
\* verdict is no-black-screen-evidence with confidence high; with such a
\* framebuffer ratio it is non-black-screenshot-with-framebuffer-black, medium.
C26_NonBlackScreenshotsAndFramebufferGiveNoEvidence ==
    (verdict_call.made /\ AllScreenshotsNonBlack /\ ~AnyRenderError) =>
        IF \E i \in DOMAIN verdict_call.metrics : FramebufferBlack(verdict_call.metrics[i])
        THEN VerdictIs("non-black-screenshot-with-framebuffer-black", "medium")
        ELSE VerdictIs("no-black-screen-evidence", "high")

\* two scenarios with a screenshot ratio of exactly 0.01 and of 0.5, errors
\* without render text, a framebuffer that is not black
C26_Witness ==
    /\ verdict_call.made
    /\ Len(verdict_call.metrics) = 2
    /\ verdict_call.metrics[1].nonBlackRatio = <<10>>
    /\ verdict_call.metrics[2].nonBlackRatio = <<500>>
    /\ verdict_call.metrics[1].framebufferNonBlackRatio = <<10>>
    /\ verdict_call.runtime[1].errors # <<>>
    /\ VerdictIs("no-black-screen-evidence", "high")

(* ------------------------------------------------------------------ *)
(* open_tab_via_cdp, called on its own                                  *)
(* ------------------------------------------------------------------ *)

\* what the browser may answer to PUT or GET /json/new: 200, an HTTPError
\* status, or no status at all (URLError, TimeoutError, ValueError)
OpenTabCallReplies == OpenTabReplies \cup {400, 403, 503}

OpenTabInit ==
    /\ ResolverIdle
    /\ PipelineIdle
    /\ classify_call = NoCall
    /\ resolve_call = NoCall
    /\ NextActionIdle /\ VerdictIdle /\ BootstrapIdle /\ VisualStartIdle
    /\ open_tab_call = NoCall

OpenTabViaCdp ==
    /\ open_tab_call = NoCall
    /\ \E url \in ResolvedUrls, put_status \in OpenTabCallReplies,
          get_status \in OpenTabCallReplies :
         open_tab_call' =
             [made |-> TRUE, tab_url |-> url, put_status |-> put_status,
              get_status |-> get_status,
              returned |-> open_tab_via_cdp(put_status, get_status)]
    /\ UNCHANGED <<resolver_vars, pipeline_vars, classify_call, resolve_call,
                   next_action_calls, verdict_call, bootstrap_call, visual_start>>

OpenTabNext == OpenTabViaCdp

OpenTabSpec == OpenTabInit /\ [][OpenTabNext]_vars

\* C29: the first request of a call is a PUT; a GET follows exactly when the
\* PUT failed with HTTP 404 or 405; a PUT that failed in any other way (another
\* status, no status) ends the call as a failure of the PUT; a PUT that
\* succeeded ends the call as a success; a call makes at most two requests.
C29_GetOnlyAfterPut404Or405 ==
    open_tab_call.made =>
        LET methods == open_tab_call.returned.methods
            put_status == open_tab_call.put_status
        IN /\ Len(methods) \in {1, 2}
           /\ methods[1] = "PUT"
           /\ Len(methods) = 2 <=> put_status \in {404, 405}
           /\ Len(methods) = 2 => methods[2] = "GET"
           /\ put_status = 200 =>
                  open_tab_call.returned.ok /\ open_tab_call.returned.method = "PUT"
           /\ put_status \notin {200, 404, 405} =>
                  /\ ~open_tab_call.returned.ok
                  /\ open_tab_call.returned.method = "PUT"
                  /\ open_tab_call.returned.status = put_status

\* the PUT was answered 405 and the GET opened the tab
C29_Witness ==
    /\ open_tab_call.made
    /\ open_tab_call.put_status = 405
    /\ open_tab_call.returned.methods = <<"PUT", "GET">>
    /\ open_tab_call.returned.ok

(* ------------------------------------------------------------------ *)
(* bootstrap_guarded.py: the guarded bootstrap wrapper                  *)
(* ------------------------------------------------------------------ *)

\* fallback_payload: fallback_reason[:180]
ReasonSnippetLength == 180

TenChars == "0123456789"
FiftyChars == TenChars \o TenChars \o TenChars \o TenChars \o TenChars

\* a stderr of 200 characters
LongStderr == FiftyChars \o FiftyChars \o FiftyChars \o FiftyChars

\* what the bootstrap script may write to stderr
BootstrapStderrs == {"", "  ", "boom", LongStderr}

\* what it may write to stdout: nothing, blanks, text that is no JSON, an
\* unterminated run of 200000 opening brackets, an array, a number of 5000
\* digits, an object
BootstrapStdouts ==
    {"", "  ", "not json", "[[[[ ...", "[1, 2]", "1111 ...", "{ ... }"}

\* str.strip() on the outputs above
StripOutput(text) == IF text = "  " THEN "" ELSE text

\* json.loads: the exception it raises, or the kind of value it returns
json_loads(stdout) ==
    CASE stdout = "not json" -> [raised |-> "JSONDecodeError", value |-> NULL]
      [] stdout = "[[[[ ..." -> [raised |-> "RecursionError", value |-> NULL]
      [] stdout = "1111 ..." -> [raised |-> "ValueError", value |-> NULL]
      [] stdout = "[1, 2]" -> [raised |-> NULL, value |-> "list"]
      [] OTHER -> [raised |-> NULL, value |-> "dict"]

\* how subprocess.run ends: the script cannot be launched, its output cannot
\* be decoded as text, or it ran to its end
LaunchOutcomes == {"OSError", "UnicodeDecodeError", "completed"}

BootstrapReturnCodes == {0, 1}

\* the object printed by the bootstrap script, as far as the wrapper reads it;
\* a field that is absent is the empty sequence
BootstrapPayloads ==
    [canInstrumentFromBrowser : BOOLEAN,
     mode : {NULL, "browser-fetch", "terminal-probe", " Browser-Fetch "},
     failureCategory : {NULL, "cdp-unavailable"},
     sessionActive : BOOLEAN,
     sessionState : {NULL, "running", " Stopped "},
     readyForScenarioRun : {<<>>, <<TRUE>>, <<FALSE>>},
     readinessReasons : {<<>>, <<"  ", " core-down ">>}]

NoPayload ==
    [canInstrumentFromBrowser |-> FALSE, mode |-> NULL, failureCategory |-> NULL,
     sessionActive |-> FALSE, sessionState |-> NULL, readyForScenarioRun |-> <<>>,
     readinessReasons |-> <<>>]

\* str.strip().lower() on the modes and states above
StripLower(text) ==
    CASE text = " Browser-Fetch " -> "browser-fetch"
      [] text = " Stopped " -> "stopped"
      [] OTHER -> text

\* item.strip() on the readiness reasons above
StripReason(item) ==
    CASE item = "  " -> ""
      [] item = " core-down " -> "core-down"
      [] OTHER -> item

fallback_payload(reason, script_path) ==
    LET fallback_reason == StripOutput(reason)
        snippet == IF Len(fallback_reason) <= ReasonSnippetLength
                   THEN fallback_reason
                   ELSE SubSeq(fallback_reason, 1, ReasonSnippetLength)
        readiness_reason == IF fallback_reason # ""
                            THEN "bootstrap-fallback:" \o snippet
                            ELSE "bootstrap-fallback"
    IN [session |-> [active |-> FALSE, sessionId |-> NULL, state |-> NULL],
        browserInstrumentation |->
            [canInstrumentFromBrowser |-> FALSE, mode |-> "terminal-probe",
             reason |-> reason, readyForScenarioRun |-> FALSE],
        readyForScenarioRun |-> FALSE,
        readinessReasons |-> <<readiness_reason>>,
        bootstrap |-> [status |-> "fallback", reason |-> reason,
                       scriptPath |-> script_path]]

enrich_success_payload(payload, script_path) ==
    LET can_instrument == payload.canInstrumentFromBrowser
        mode == IF payload.mode = NULL
                THEN (IF can_instrument THEN "browser-fetch" ELSE "terminal-probe")
                ELSE payload.mode
        NotBlank(item) == StripReason(item) # ""
        kept == SelectSeq(payload.readinessReasons, NotBlank)
        readiness_reasons == [i \in DOMAIN kept |-> StripReason(kept[i])]
        gate == IF readiness_reasons = <<>> /\ ~can_instrument
                   /\ StripLower(mode) = "browser-fetch"
                THEN <<"instrumentation-gate:" \o
                          (IF payload.failureCategory # NULL
                           THEN payload.failureCategory ELSE "failed")>>
                ELSE <<>>
        normalized_state ==
            IF payload.sessionState = NULL THEN "unknown" ELSE StripLower(payload.sessionState)
        state == IF payload.sessionActive /\ normalized_state # "running"
                 THEN <<"session-state:" \o normalized_state>>
                 ELSE <<>>
        computed == readiness_reasons \o gate \o state
        given == payload.readyForScenarioRun # <<>>
        ready_for_scenario == IF given THEN payload.readyForScenarioRun[1]
                              ELSE computed = <<>>
    IN [session |-> [active |-> payload.sessionActive, sessionId |-> NULL,
                     state |-> payload.sessionState],
        browserInstrumentation |->
            [canInstrumentFromBrowser |-> can_instrument, mode |-> mode,
             reason |-> NULL, readyForScenarioRun |-> ready_for_scenario],
        readyForScenarioRun |-> ready_for_scenario,
        readinessReasons |-> IF given THEN readiness_reasons ELSE computed,
        bootstrap |-> [status |-> "ok", reason |-> NULL, scriptPath |-> script_path]]

\* what the process does: a payload is returned, or an exception that nothing
\* catches ends the process
Returned(payload) == [raised |-> NULL, payload |-> <<payload>>]
Uncaught(exception) == [raised |-> exception, payload |-> <<>>]

run_bootstrap(launch, returncode, stderr, stdout, payload) ==
    IF launch = "OSError"
    THEN Returned(fallback_payload("bootstrap launch failed", "script"))
    ELSE IF launch = "UnicodeDecodeError"
    THEN Uncaught("UnicodeDecodeError")
    ELSE IF returncode # 0
    THEN Returned(fallback_payload(
             IF StripOutput(stderr) # ""
             THEN "bootstrap returned non-zero exit code: " \o StripOutput(stderr)
             ELSE "bootstrap returned non-zero exit code", "script"))
    ELSE IF StripOutput(stdout) = ""
    THEN Returned(fallback_payload("bootstrap produced empty stdout", "script"))
    ELSE LET parsed == json_loads(StripOutput(stdout))
         IN IF parsed.raised = "JSONDecodeError"
            THEN Returned(fallback_payload("bootstrap emitted invalid JSON", "script"))
            ELSE IF parsed.raised # NULL
            THEN Uncaught(parsed.raised)
            ELSE IF parsed.value # "dict"
            THEN Returned(fallback_payload("bootstrap JSON payload is not an object",
                                           "script"))
            ELSE Returned(enrich_success_payload(payload, "script"))

bootstrap_guarded(script_exists, launch, returncode, stderr, stdout, payload) ==
    IF ~script_exists
    THEN Returned(fallback_payload("bootstrap script not found in candidates", "script"))
    ELSE run_bootstrap(launch, returncode, stderr, stdout, payload)

BootstrapInit ==
    /\ ResolverIdle
    /\ PipelineIdle
    /\ classify_call = NoCall
    /\ resolve_call = NoCall
    /\ NextActionIdle /\ VerdictIdle /\ OpenTabIdle /\ VisualStartIdle
    /\ bootstrap_call = NoCall

\* main: the payload is printed and the process exits 0, unless an exception
\* that nothing catches ended it before (exit status 1, nothing printed)
BootstrapMain ==
    /\ bootstrap_call = NoCall
    /\ \E script_exists \in BOOLEAN, launch \in LaunchOutcomes,
          returncode \in BootstrapReturnCodes, stderr \in BootstrapStderrs,
          stdout \in BootstrapStdouts, payload \in BootstrapPayloads :
         LET ran == script_exists /\ launch = "completed"
             parsed == ran /\ returncode = 0 /\ stdout = "{ ... }"
             result == bootstrap_guarded(script_exists, launch, returncode, stderr,
                                         stdout, payload)
         IN \* inputs that are never read are fixed, so that a call is one state
            /\ ran \/ (returncode = 0 /\ stderr = "" /\ stdout = "")
            /\ script_exists \/ launch = "completed"
            /\ (ran /\ returncode = 0) \/ stdout = ""
            /\ (ran /\ returncode # 0) \/ stderr = ""
            /\ parsed \/ payload = NoPayload
            /\ bootstrap_call' =
                   [made |-> TRUE, script_exists |-> script_exists, launch |-> launch,
                    returncode |-> returncode, stderr |-> stderr, stdout |-> stdout,
                    object |-> payload,
                    raised |-> result.raised,
                    printed |-> result.payload,
                    exit_status |-> IF result.raised = NULL THEN 0 ELSE 1]
    /\ UNCHANGED <<resolver_vars, pipeline_vars, classify_call, resolve_call,
                   next_action_calls, verdict_call, open_tab_call, visual_start>>

BootstrapNext == BootstrapMain

BootstrapSpec == BootstrapInit /\ [][BootstrapNext]_vars

\* ---------------------------------------------------------------------------
\* vocabulary of the bootstrap claim

ScriptMissing == ~bootstrap_call.script_exists
ScriptLaunched == bootstrap_call.script_exists /\ bootstrap_call.launch # "OSError"
ScriptCompleted == bootstrap_call.script_exists /\ bootstrap_call.launch = "completed"
PrintsNothing == bootstrap_call.stdout \in {"", "  "}
PrintsInvalidJson == bootstrap_call.stdout \in {"not json", "[[[[ ..."}
PrintsNonObject == bootstrap_call.stdout \in {"[1, 2]", "1111 ..."}

\* one of the failures the wrapper guards against
BootstrapFailed ==
    \/ ScriptMissing
    \/ bootstrap_call.script_exists /\ bootstrap_call.launch = "OSError"
    \/ ScriptCompleted /\ bootstrap_call.returncode # 0
    \/ ScriptCompleted /\ bootstrap_call.returncode = 0
         /\ (PrintsNothing \/ PrintsInvalidJson \/ PrintsNonObject)

IsFallbackPayload(payload) ==
    /\ payload.bootstrap.status = "fallback"
    /\ ~payload.browserInstrumentation.canInstrumentFromBrowser
    /\ payload.browserInstrumentation.mode = "terminal-probe"
    /\ ~payload.browserInstrumentation.readyForScenarioRun
    /\ ~payload.readyForScenarioRun
    /\ payload.readinessReasons # <<>>
    /\ ~payload.session.active

\* C30: whenever the bootstrap script is missing, cannot be launched, exits
\* non-zero, prints nothing, prints invalid JSON or prints a non-object, the
\* wrapper prints the fallback payload (bootstrap.status fallback,
\* canInstrumentFromBrowser false, mode terminal-probe, readyForScenarioRun
\* false, readinessReasons non-empty, session inactive) and exits 0.
C30_FailureGivesFallbackAndExitZero ==
    (bootstrap_call.made /\ BootstrapFailed) =>
        /\ bootstrap_call.exit_status = 0
        /\ bootstrap_call.printed # <<>>
        /\ IsFallbackPayload(bootstrap_call.printed[1])

(* ------------------------------------------------------------------ *)
(* resolve_auto_session: the audit trail and what is sent               *)
(* ------------------------------------------------------------------ *)

\* C33: a tab is opened only right after a Target Resolver run, made for the
\* ensure attempt that just failed, that reported no match for the URL: the
\* entry before each open-tab-if-missing entry is a resolve-target-from-cdp-list
\* entry with TARGET_NOT_FOUND, and the one before that is the failed ensure.
C33_TabOpenedOnlyAfterResolverFoundNoMatch ==
    \A i \in ActionIndexes(OpenName) :
        /\ i > 2
        /\ actions[i - 1].action = ResolveName
        /\ actions[i - 1].errorCode = "TARGET_NOT_FOUND"
        /\ actions[i - 2].action = "ensure-session"
        /\ ~actions[i - 2].ok

\* the recovery branches that took effect, read from the audit trail: a
\* resolution that pinned a tab, a tab that was opened, a backoff
BranchesExercised ==
    {name \in {PreflightName, ResolveName, OpenName} :
        \E i \in ActionIndexes(name) : actions[i].ok}
    \cup {name \in {BackoffName} : ActionIndexes(name) # {}}

\* the lifecycle is handed to the caller: in the returned dict or in the
\* AutoSessionResolutionError
LifecycleHandedOver == pc \in {"returned", "raised"}

\* C35: whenever resolve_auto_session terminates, by success or by terminal
\* failure, lifecycle.fallbackUsed is true iff some recovery branch was
\* exercised, lifecycle.fallbackActionsUsed lists exactly the branches
\* exercised, each once, and so fallbackUsed holds iff fallbackActionsUsed is
\* non-empty.
C35_FallbackFieldsTrackBranches ==
    LifecycleHandedOver =>
        /\ lifecycle.fallbackUsed <=> BranchesExercised # {}
        /\ {lifecycle.fallbackActionsUsed[i] : i \in DOMAIN lifecycle.fallbackActionsUsed}
               = BranchesExercised
        /\ Len(lifecycle.fallbackActionsUsed) = Cardinality(BranchesExercised)
        /\ lifecycle.fallbackUsed <=> lifecycle.fallbackActionsUsed # <<>>

\* the resolver runs recorded in the audit trail, and those that found one tab
ResolverIndexes == ActionIndexes(PreflightName) \cup ActionIndexes(ResolveName)
PinIndexes == {i \in ResolverIndexes : actions[i].ok}
PinnedBefore(j) == \E i \in PinIndexes : i < j
PinUrl == actions[CHOOSE i \in PinIndexes : TRUE].resolvedTabUrl

\* where the k-th ensure call is recorded; an ensure call that ended the
\* resolution without an entry comes after every entry
EnsureEntryIndex(k) ==
    LET entries == ActionIndexes("ensure-session")
    IN IF k <= Cardinality(entries)
       THEN CHOOSE j \in entries : Cardinality({i \in entries : i <= j}) = k
       ELSE Len(actions) + 1

LastFailedEnsure == CHOOSE i \in FailedEnsureIndexes : \A j \in FailedEnsureIndexes : j <= i

\* C37: after a successful resolution firstEnsureAttemptSucceeded is true iff
\* ensureAttempts = 1, and failureCategory is null exactly in that case; when
\* more attempts were needed, failureCategory is the category of the failed
\* ensure attempt recorded last.
C37_FirstAttemptFlagAndCategoryOnSuccess ==
    pc = "returned" =>
        /\ lifecycle.firstEnsureAttemptSucceeded <=> lifecycle.ensureAttempts = 1
        /\ lifecycle.failureCategory = NULL <=> lifecycle.ensureAttempts = 1
        /\ lifecycle.ensureAttempts = Len(EnsureCalls)
        /\ lifecycle.ensureAttempts > 1 =>
               /\ FailedEnsureIndexes # {}
               /\ lifecycle.failureCategory = actions[LastFailedEnsure].failureCategory

\* the third attempt succeeded after a backoff and a resolution; the category
\* kept is the one of the second attempt
C37_Witness ==
    /\ pc = "returned"
    /\ lifecycle.ensureAttempts = 3
    /\ ~lifecycle.firstEnsureAttemptSucceeded
    /\ lifecycle.failureCategory = "target-not-found"
    /\ \E i \in FailedEnsureIndexes : actions[i].failureCategory = "cdp-unavailable"

\* the entry an operation is recorded under: a stop, or the health probe that
\* lets the stop be skipped, an ensure request, a /json/list read, the PUT of
\* a tab-open request (its GET fallback belongs to the same request), a sleep
AuditNames(c) ==
    IF c.kind = "stop" THEN {"stop-active-session"}
    ELSE IF c.kind = "health"
    THEN IF StopIsSent(c.reply) THEN {} ELSE {"stop-active-session"}
    ELSE IF c.kind = "ensure" THEN {"ensure-session"}
    ELSE IF c.kind = "list" THEN {PreflightName, ResolveName}
    ELSE IF c.kind = "new" THEN IF c.reply = "PUT" THEN {OpenName} ELSE {}
    ELSE IF c.kind = "sleep" THEN {BackoffName}
    ELSE {}

IsAudited(c) == AuditNames(c) # {}

\* C38: lifecycle.actions is an append-only, complete audit trail: no step
\* changes or removes an entry, every stop (or skipped stop), resolver run,
\* ensure attempt, tab-open request and backoff of a step adds exactly one
\* entry, in the order performed, and at termination the number of
\* ensure-session entries equals lifecycle.ensureAttempts.
C38_ActionsAreACompleteAuditTrail ==
    /\ [][LET performed == SelectSeq(SubSeq(calls', Len(calls) + 1, Len(calls')), IsAudited)
              added == SubSeq(actions', Len(actions) + 1, Len(actions'))
          IN /\ Len(actions') >= Len(actions)
             /\ SubSeq(actions', 1, Len(actions)) = actions
             /\ Len(added) = Len(performed)
             /\ \A i \in DOMAIN added : added[i].action \in AuditNames(performed[i])]_vars
    /\ [](Terminated =>
             Cardinality(ActionIndexes("ensure-session")) = lifecycle.ensureAttempts)

\* the parts of the audit trail that do hold in every run: entries are only
\* appended, and a resolution that hands its lifecycle over has one
\* ensure-session entry per attempt
AuditTrailAppendOnly ==
    [][/\ Len(actions') >= Len(actions)
       /\ SubSeq(actions', 1, Len(actions)) = actions]_vars

EnsureEntriesMatchAttemptsWhenHandedOver ==
    LifecycleHandedOver =>
        Cardinality(ActionIndexes("ensure-session")) = lifecycle.ensureAttempts

\* C39: with forceNewSession every /session/ensure request carries
\* reuseActive = false, whatever the caller passed and on every retry; without
\* it every ensure request carries the caller's reuse setting unchanged.
C39_EnsureReuseActiveFollowsForceNewSession ==
    \A k \in DOMAIN EnsureCalls :
        EnsureCalls[k].reuseActive = (IF force_new_session THEN FALSE ELSE caller_reuse_active)

\* a forced resolution whose caller asked for reuse sent a second ensure
\* request after a retry
C39_Witness ==
    /\ force_new_session
    /\ caller_reuse_active
    /\ Len(EnsureCalls) >= 2
    /\ ~EnsureCalls[2].reuseActive

\* ---------------------------------------------------------------------------
\* a failure classified as a validation error: a session resolution the
\* resolver ended with category validation-error after an ensure reply of
\* HTTP 422 (with the error code of that reply, missing or VALIDATION_ERROR),
\* or a command failure that carries the error code VALIDATION_ERROR
ClassifiedAsValidationError(call) ==
    \/ /\ call.source = "session-lifecycle"
       /\ call.failure_category = "validation-error"
       /\ call.error_code \in {NULL, "VALIDATION_ERROR"}
       /\ classify_session_failure(call.error_code, 422) = call.failure_category
    \/ /\ call.source = "scenario-command"
       /\ call.failure_category = NULL
       /\ call.error_code = "VALIDATION_ERROR"

\* C34: whenever a failure is classified as a validation error, the surfaced
\* next action is stale-transport-retry if stale-transport text is found in
\* the error message or body snippet, and fix-scenario-payload otherwise.
C34_ValidationErrorNextAction ==
    \A i \in DOMAIN next_action_calls :
        LET call == next_action_calls[i]
        IN ClassifiedAsValidationError(call) =>
               call.returned.id =
                   IF is_stale_transport_error(call.error_message,
                                               call.response_body_snippet)
                   THEN "stale-transport-retry"
                   ELSE "fix-scenario-payload"

\* the part that holds: the two actions are chosen by the error code alone
ValidationErrorCodeNextAction ==
    \A i \in DOMAIN next_action_calls :
        LET call == next_action_calls[i]
        IN (ClassifiedAsValidationError(call) /\ call.error_code = "VALIDATION_ERROR") =>
               call.returned.id =
                   IF is_stale_transport_error(call.error_message,
                                               call.response_body_snippet)
                   THEN "stale-transport-retry"
                   ELSE "fix-scenario-payload"

(* ------------------------------------------------------------------ *)
(* visual_debug_start.py: one run of main                               *)
(* ------------------------------------------------------------------ *)
\* what the bootstrap script prints, as far as main reads it: the parsed
\* payload (object is FALSE when stdout is no JSON object) and the exit status
BootstrapRun ==
    [object |-> TRUE, exitCode |-> 0, mode |-> "terminal-probe",
     canInstrumentFromBrowser |-> FALSE, readinessReasons |-> <<>>,
     appUrlStatus |-> "match", cdpOk |-> TRUE, cdpReason |-> NULL,
     sessionActive |-> FALSE, sessionState |-> NULL, readyForScenarioRun |-> "true"]

BootstrapRuns ==
    { BootstrapRun,
      [BootstrapRun EXCEPT !.readyForScenarioRun = "missing"],
      [BootstrapRun EXCEPT !.readyForScenarioRun = "false"],
      [BootstrapRun EXCEPT !.mode = "browser-fetch", !.canInstrumentFromBrowser = TRUE],
      [BootstrapRun EXCEPT !.mode = NULL, !.canInstrumentFromBrowser = TRUE,
                           !.readinessReasons = <<"session-state:error">>,
                           !.readyForScenarioRun = "false"],
      [BootstrapRun EXCEPT !.readinessReasons = <<"session-state:error">>,
                           !.readyForScenarioRun = "false"],
      [BootstrapRun EXCEPT !.readinessReasons = <<"app-url-gate:mismatch">>,
                           !.appUrlStatus = "mismatch", !.readyForScenarioRun = "false"],
      [BootstrapRun EXCEPT !.cdpOk = FALSE, !.cdpReason = "port-closed",
                           !.readyForScenarioRun = "false"],
      [BootstrapRun EXCEPT !.cdpOk = FALSE, !.readyForScenarioRun = "missing"],
      [BootstrapRun EXCEPT !.sessionActive = TRUE, !.sessionState = "Stale"],
      [BootstrapRun EXCEPT !.sessionActive = TRUE, !.sessionState = "running"],
      [BootstrapRun EXCEPT !.object = FALSE, !.exitCode = 1, !.mode = NULL],
      [BootstrapRun EXCEPT !.exitCode = 1, !.cdpOk = FALSE, !.cdpReason = "port-closed",
                           !.readyForScenarioRun = "false"] }

\* resolve_mode on the payload ({} when stdout was no object)
resolve_mode(run) ==
    IF run.object /\ run.mode # NULL THEN run.mode
    ELSE IF run.object /\ run.canInstrumentFromBrowser THEN "browser-fetch"
    ELSE "terminal-probe"

\* session_state.strip().lower()
NormalizedState(state) ==
    CASE state = NULL -> "unknown"
      [] state = "Stale" -> "stale"
      [] OTHER -> state

RECURSIVE unique_strings(_)
unique_strings(items) ==
    IF items = <<>> THEN <<>>
    ELSE AddOnce(unique_strings(SubSeq(items, 1, Len(items) - 1)), items[Len(items)])

\* derive_readiness, for payloads without checks.headedEvidence and
\* checks.coreHealth
derive_readiness(run, mode) ==
    LET payload == run.object
        reported == IF payload THEN unique_strings(run.readinessReasons) ELSE <<>>
        app_url == IF payload /\ run.appUrlStatus \in {"mismatch", "not-provided",
                                                       "invalid-actual-url"}
                   THEN <<"app-url-gate:" \o run.appUrlStatus>> ELSE <<>>
        instrumentation == IF payload /\ ~run.canInstrumentFromBrowser
                              /\ mode = "browser-fetch"
                           THEN <<"instrumentation-gate:failed">> ELSE <<>>
        cdp == IF payload /\ ~run.cdpOk
               THEN IF run.cdpReason # NULL
                    THEN <<"cdp-unavailable:" \o run.cdpReason>>
                    ELSE <<"cdp-unavailable">>
               ELSE <<>>
        session == IF payload /\ run.sessionActive
                      /\ NormalizedState(run.sessionState) # "running"
                   THEN <<"session-state:" \o NormalizedState(run.sessionState)>>
                   ELSE <<>>
        reasons == unique_strings(reported \o app_url \o instrumentation \o cdp \o session)
    IN [finalReady |-> IF payload /\ run.readyForScenarioRun # "missing"
                       THEN run.readyForScenarioRun = "true" /\ Len(reasons) = 0
                       ELSE Len(reasons) = 0,
        finalReasons |-> reasons]

extract_bootstrap_context(run) ==
    [mode |-> resolve_mode(run), readiness |-> derive_readiness(run, resolve_mode(run))]

\* str.startswith
StartsWith(text, prefix) ==
    Len(text) >= Len(prefix) /\ SubSeq(text, 1, Len(prefix)) = prefix

\* faulty variant (C31): the flag --auto-recover-session is not looked at
should_attempt_recovery_without_flag(auto_recover_session, readiness_reasons) ==
    \E i \in DOMAIN readiness_reasons :
        \/ StartsWith(readiness_reasons[i], "cdp-unavailable")
        \/ StartsWith(readiness_reasons[i], "session-state:")

should_attempt_recovery(auto_recover_session, readiness_reasons) ==
    /\ auto_recover_session
    /\ \E i \in DOMAIN readiness_reasons :
           \/ StartsWith(readiness_reasons[i], "cdp-unavailable:")
           \/ StartsWith(readiness_reasons[i], "cdp-unavailable")
           \/ StartsWith(readiness_reasons[i], "session-state:")

\* GET /health as attempt_session_recovery reads it
RecoveryHealthReplies ==
    { [ok |-> FALSE, status |-> NoStatus, body |-> "none"],
      [ok |-> TRUE, status |-> 200, body |-> "not-object"],
      [ok |-> TRUE, status |-> 200, body |-> "no-active"],
      [ok |-> TRUE, status |-> 200, body |-> "active-no-id"],
      [ok |-> TRUE, status |-> 200, body |-> "active"] }

ActiveSessionId(reply) == IF reply.body = "active" THEN ExistingSessionId ELSE NULL

\* POST /session/ensure as attempt_session_recovery reads it
RecoveryEnsureReplies ==
    { [ok |-> TRUE, status |-> 200, body |-> "session"],
      [ok |-> TRUE, status |-> 200, body |-> "not-object"],
      [ok |-> FALSE, status |-> 503, body |-> "error"] }

EnsuredSessionId(reply) == IF reply.body = "session" THEN NewSessionId ELSE NULL

\* faulty variant (C40): a failed stop does not end the recovery
RecoveryStopsAfterNever(response) == FALSE

\* `if not bool(response.get("ok")): return {... "result": "failed" ...}`
RecoveryStopsAfter(response) == ~response.ok

NoRecovery ==
    [attempted |-> FALSE, actions |-> <<>>, result |-> "not-attempted", reason |-> NULL,
     sessionId |-> NULL]

RecoveryAction(action, response) ==
    [action |-> action, ok |-> response.ok, status |-> response.status,
     sessionId |-> NULL, skipped |-> FALSE]

\* faulty variant (C32): the capture runs whatever the readiness
can_run_terminal_probe_unready(mode, skip_terminal_probe, plan_mode, final_ready) ==
    mode = "terminal-probe" /\ ~skip_terminal_probe /\ ~plan_mode

can_run_terminal_probe(mode, skip_terminal_probe, plan_mode, final_ready) ==
    mode = "terminal-probe" /\ ~skip_terminal_probe /\ ~plan_mode /\ final_ready

\* exit statuses of the capture script and of the parity bundle
ChildExitCodes == {0, 1}

build_headed_evidence_from_terminal_probe(terminal_probe_result) ==
    IF terminal_probe_result = <<>> THEN "failed"
    ELSE IF terminal_probe_result[1].exitCode = 0 THEN "ok" ELSE "failed"

compute_exit_code(bootstrap, terminal_probe_result, readiness, recovery, headed_evidence, plan_mode) ==
    IF bootstrap.exitCode # 0 THEN 1
    ELSE IF recovery.attempted /\ recovery.result = "failed" THEN 1
    ELSE IF ~plan_mode /\ ~readiness.finalReady THEN 1
    ELSE IF terminal_probe_result # <<>> /\ terminal_probe_result[1].exitCode # 0 THEN 1
    ELSE IF headed_evidence = "failed" THEN 1
    ELSE 0

\* the state of main before its first statement, for one command line
StartOfMain(auto_recover_session, skip_terminal_probe, plan_mode, headed_evidence, reference_image) ==
    [made |-> TRUE, pc |-> "bootstrap",
     auto_recover_session |-> auto_recover_session,
     skip_terminal_probe |-> skip_terminal_probe,
     plan_mode |-> plan_mode,
     headed_evidence |-> headed_evidence,
     reference_image |-> reference_image,
     bootstraps |-> <<>>,                  \* every run of the bootstrap command
     context |-> extract_bootstrap_context([BootstrapRun EXCEPT !.object = FALSE]),
     recovery |-> NoRecovery,
     active_session_id |-> NULL,
     requests |-> <<>>,                    \* every request sent to the Core
     terminal_probe_result |-> <<>>,       \* None, or the result of the capture
     headed_evidence_status |-> "not-requested",
     exit_code |-> <<>>]

VisualStartInit ==
    /\ ResolverIdle
    /\ PipelineIdle
    /\ classify_call = NoCall
    /\ resolve_call = NoCall
    /\ NextActionIdle /\ VerdictIdle /\ OpenTabIdle /\ BootstrapIdle
    /\ \E auto_recover_session \in BOOLEAN, skip_terminal_probe \in BOOLEAN,
          plan_mode \in BOOLEAN, headed_evidence \in BOOLEAN, reference_image \in BOOLEAN :
         visual_start = StartOfMain(auto_recover_session, skip_terminal_probe, plan_mode,
                                    headed_evidence, reference_image)

VisualStartOthersUnchanged ==
    UNCHANGED <<resolver_vars, pipeline_vars, classify_call, resolve_call,
                next_action_calls, verdict_call, open_tab_call, bootstrap_call>>

CoreRequest(method, path) ==
    [method |-> method, path |-> path, sessionId |-> NULL, reuseActive |-> NULL]

\* attempt_session_recovery returns with result failed
RecoveryFailed(recovery_actions, reason) ==
    [attempted |-> TRUE, actions |-> recovery_actions, result |-> "failed", reason |-> reason,
     sessionId |-> NULL]

\* main: the bootstrap command is run, and recovery is decided
RunBootstrap ==
    /\ visual_start.made
    /\ visual_start.pc = "bootstrap"
    /\ \E run \in BootstrapRuns :
         LET context == extract_bootstrap_context(run)
         IN visual_start' =
                [visual_start EXCEPT
                    !.bootstraps = Append(@, run),
                    !.context = context,
                    !.pc = IF should_attempt_recovery(visual_start.auto_recover_session,
                                                      context.readiness.finalReasons)
                           THEN "health" ELSE "capture"]
    /\ VisualStartOthersUnchanged

\* attempt_session_recovery: GET /health
RecoveryHealthCheck ==
    /\ visual_start.made
    /\ visual_start.pc = "health"
    /\ \E health_response \in RecoveryHealthReplies :
         LET recovery_actions == <<RecoveryAction("health-check", health_response)>>
             active_session_id == ActiveSessionId(health_response)
             skipped == [RecoveryAction("stop-active-session", [ok |-> TRUE, status |-> NoStatus])
                            EXCEPT !.skipped = TRUE]
             sent == Append(visual_start.requests, CoreRequest("GET", "/health"))
         IN IF RecoveryStopsAfter(health_response)
            THEN visual_start' =
                     [visual_start EXCEPT
                         !.requests = sent,
                         !.recovery = RecoveryFailed(recovery_actions, "health-check-failed"),
                         !.pc = "capture"]
            ELSE IF active_session_id # NULL
            THEN visual_start' =
                     [visual_start EXCEPT
                         !.requests = sent,
                         !.recovery = [@ EXCEPT !.attempted = TRUE, !.actions = recovery_actions],
                         !.active_session_id = active_session_id,
                         !.pc = "stop"]
            ELSE visual_start' =
                     [visual_start EXCEPT
                         !.requests = sent,
                         !.recovery = [@ EXCEPT !.attempted = TRUE,
                                                !.actions = Append(recovery_actions, skipped)],
                         !.pc = "ensure"]
    /\ VisualStartOthersUnchanged

\* attempt_session_recovery: POST /session/stop for the active session
RecoveryStopSession ==
    /\ visual_start.made
    /\ visual_start.pc = "stop"
    /\ \E stop_response \in StopReplies :
         LET recovery_actions == Append(visual_start.recovery.actions,
                               [RecoveryAction("stop-active-session", stop_response)
                                   EXCEPT !.sessionId = visual_start.active_session_id])
             sent == Append(visual_start.requests,
                            [CoreRequest("POST", "/session/stop")
                                EXCEPT !.sessionId = visual_start.active_session_id])
         IN IF RecoveryStopsAfter(stop_response)
            THEN visual_start' =
                     [visual_start EXCEPT
                         !.requests = sent,
                         !.recovery = RecoveryFailed(recovery_actions, "session-stop-failed"),
                         !.pc = "capture"]
            ELSE visual_start' =
                     [visual_start EXCEPT
                         !.requests = sent,
                         !.recovery = [@ EXCEPT !.actions = recovery_actions],
                         !.pc = "ensure"]
    /\ VisualStartOthersUnchanged

\* attempt_session_recovery: POST /session/ensure, and its return
RecoveryEnsureSession ==
    /\ visual_start.made
    /\ visual_start.pc = "ensure"
    /\ \E ensure_response \in RecoveryEnsureReplies :
         LET ensured_session_id == EnsuredSessionId(ensure_response)
             recovery_actions == Append(visual_start.recovery.actions,
                               [RecoveryAction("ensure-session", ensure_response)
                                   EXCEPT !.sessionId = ensured_session_id])
             sent == Append(visual_start.requests,
                            [CoreRequest("POST", "/session/ensure")
                                EXCEPT !.reuseActive = FALSE])
         IN IF RecoveryStopsAfter(ensure_response)
            THEN visual_start' =
                     [visual_start EXCEPT
                         !.requests = sent,
                         !.recovery = RecoveryFailed(recovery_actions, "session-ensure-failed"),
                         !.pc = "capture"]
            ELSE visual_start' =
                     [visual_start EXCEPT
                         !.requests = sent,
                         !.recovery = [attempted |-> TRUE, actions |-> recovery_actions,
                                       result |-> "success", reason |-> NULL,
                                       sessionId |-> ensured_session_id],
                         !.pc = "rerun"]
    /\ VisualStartOthersUnchanged

\* main: the bootstrap command is run again after a successful recovery
RerunBootstrap ==
    /\ visual_start.made
    /\ visual_start.pc = "rerun"
    /\ \E run \in BootstrapRuns :
         visual_start' =
             [visual_start EXCEPT
                 !.bootstraps = Append(@, run),
                 !.context = extract_bootstrap_context(run),
                 !.pc = "capture"]
    /\ VisualStartOthersUnchanged

\* main: the terminal-probe capture, when it can run
TerminalProbeCapture ==
    /\ visual_start.made
    /\ visual_start.pc = "capture"
    /\ LET launched == can_run_terminal_probe(visual_start.context.mode,
                                              visual_start.skip_terminal_probe,
                                              visual_start.plan_mode,
                                              visual_start.context.readiness.finalReady)
       IN \E probe_exit \in IF launched THEN ChildExitCodes ELSE {0} :
            visual_start' =
                [visual_start EXCEPT
                    !.terminal_probe_result =
                        IF launched THEN <<[exitCode |-> probe_exit]>> ELSE <<>>,
                    !.pc = "evidence"]
    /\ VisualStartOthersUnchanged

\* main: the headed evidence bundle, when requested
HeadedEvidence ==
    /\ visual_start.made
    /\ visual_start.pc = "evidence"
    /\ LET mode == visual_start.context.mode
           blocked == ~visual_start.context.readiness.finalReady /\ ~visual_start.plan_mode
           parity == /\ visual_start.headed_evidence
                     /\ mode = "browser-fetch"
                     /\ visual_start.reference_image
                     /\ ~blocked
       IN \E parity_exit \in IF parity THEN ChildExitCodes ELSE {0} :
            visual_start' =
                [visual_start EXCEPT
                    !.headed_evidence_status =
                        IF ~visual_start.headed_evidence THEN "not-requested"
                        ELSE IF mode = "browser-fetch"
                        THEN IF ~visual_start.reference_image \/ blocked THEN "failed"
                             ELSE IF parity_exit = 0 THEN "ok" ELSE "failed"
                        ELSE IF mode = "terminal-probe"
                        THEN build_headed_evidence_from_terminal_probe(
                                 visual_start.terminal_probe_result)
                        ELSE "not-requested",
                    !.pc = "exit"]
    /\ VisualStartOthersUnchanged

\* main: the exit code is computed and returned
ReturnExitCode ==
    /\ visual_start.made
    /\ visual_start.pc = "exit"
    /\ visual_start' =
           [visual_start EXCEPT
               !.exit_code =
                   <<compute_exit_code(visual_start.bootstraps[Len(visual_start.bootstraps)],
                                       visual_start.terminal_probe_result,
                                       visual_start.context.readiness,
                                       visual_start.recovery,
                                       visual_start.headed_evidence_status,
                                       visual_start.plan_mode)>>,
               !.pc = "exited"]
    /\ VisualStartOthersUnchanged

VisualStartNext ==
    \/ RunBootstrap
    \/ RecoveryHealthCheck
    \/ RecoveryStopSession
    \/ RecoveryEnsureSession
    \/ RerunBootstrap
    \/ TerminalProbeCapture
    \/ HeadedEvidence
    \/ ReturnExitCode

VisualStartSpec == VisualStartInit /\ [][VisualStartNext]_vars

\* ---------------------------------------------------------------------------
\* vocabulary of the claims about visual_debug_start.py

CoreRequestIndexes(path) ==
    {i \in DOMAIN visual_start.requests : visual_start.requests[i].path = path}

VisualStartExited == visual_start.pc = "exited"

\* the payload of the first bootstrap run gives a readiness reason that starts
\* with cdp-unavailable or with session-state:
FirstBootstrapHasRecoverableReason ==
    LET run == visual_start.bootstraps[1]
    IN /\ run.object
       /\ \/ ~run.cdpOk
          \/ run.sessionActive /\ run.sessionState # "running"
          \/ \E i \in DOMAIN run.readinessReasons :
                 \/ StartsWith(run.readinessReasons[i], "cdp-unavailable")
                 \/ StartsWith(run.readinessReasons[i], "session-state:")

\* C31: a run attempts session recovery at most once, and only when
\* --auto-recover-session is set and a readiness reason of the bootstrap starts
\* with cdp-unavailable or session-state:; at exit the bootstrap was run twice
\* when the recovery succeeded and once otherwise.
C31_RecoveryAtMostOnceAndBootstrapCount ==
    /\ Cardinality(CoreRequestIndexes("/health")) <= 1
    /\ visual_start.recovery.attempted <=> CoreRequestIndexes("/health") # {}
    /\ visual_start.recovery.attempted =>
           /\ visual_start.auto_recover_session
           /\ FirstBootstrapHasRecoverableReason
    /\ VisualStartExited =>
           Len(visual_start.bootstraps) =
               IF visual_start.recovery.result = "success" THEN 2 ELSE 1

\* a run with the flag whose recovery succeeded and whose second bootstrap is
\* ready
C31_Witness ==
    /\ VisualStartExited
    /\ visual_start.auto_recover_session
    /\ visual_start.recovery.result = "success"
    /\ Len(visual_start.bootstraps) = 2
    /\ visual_start.bootstraps[1].readinessReasons = <<"session-state:error">>
    /\ visual_start.context.readiness.finalReady

CaptureLaunched == visual_start.terminal_probe_result # <<>>

\* a successful recovery was followed by a bootstrap that is still not ready
RecoveredButNotReady ==
    /\ visual_start.recovery.result = "success"
    /\ Len(visual_start.bootstraps) = 2
    /\ ~visual_start.context.readiness.finalReady

CaptureOnlyWhenAllowed ==
    CaptureLaunched =>
        /\ visual_start.context.mode = "terminal-probe"
        /\ visual_start.context.readiness.finalReady
        /\ ~visual_start.skip_terminal_probe
        /\ ~visual_start.plan_mode

\* C32 as stated: the capture is launched only when the final mode is
\* terminal-probe, the final readiness is true and neither
\* --skip-terminal-probe nor --plan-mode is set; after a successful recovery
\* followed by a bootstrap that is still not ready, no capture is launched and
\* the exit code is 1.
C32_CaptureGateAndExitOne ==
    /\ CaptureOnlyWhenAllowed
    /\ (VisualStartExited /\ RecoveredButNotReady) =>
           ~CaptureLaunched /\ visual_start.exit_code = <<1>>

\* C32, amended: as above, with the exit code 1 only for runs without
\* --plan-mode; with --plan-mode the readiness does not enter the exit code.
C32_CaptureGateAndExitOneUnlessPlanMode ==
    /\ CaptureOnlyWhenAllowed
    /\ (VisualStartExited /\ RecoveredButNotReady) =>
           /\ ~CaptureLaunched
           /\ ~visual_start.plan_mode => visual_start.exit_code = <<1>>

\* terminal-probe mode, recovery succeeded, still not ready, no plan mode
C32_Witness ==
    /\ VisualStartExited
    /\ RecoveredButNotReady
    /\ visual_start.context.mode = "terminal-probe"
    /\ ~visual_start.plan_mode
    /\ ~visual_start.skip_terminal_probe
    /\ ~CaptureLaunched
    /\ visual_start.exit_code = <<1>>

RecoveryRequests == visual_start.requests
RecoveryActions == visual_start.recovery.actions
RecoveryReturned == visual_start.pc \notin {"bootstrap", "health", "stop", "ensure"}

\* C40: attempt_session_recovery calls GET /health, then POST /session/stop
\* only if health reported an active session, then POST /session/ensure with
\* reuseActive = false; it stops at the first failing call with result failed,
\* and reports success only if the ensure call succeeded.
C40_RecoveryCallOrder ==
    /\ \A i \in DOMAIN RecoveryRequests :
           LET request == RecoveryRequests[i]
           IN /\ request.path = "/health" <=> i = 1
              /\ request.path = "/health" => request.method = "GET"
              /\ request.path = "/session/stop" =>
                     /\ i = 2
                     /\ request.method = "POST"
                     /\ visual_start.active_session_id # NULL
                     /\ request.sessionId = visual_start.active_session_id
              /\ request.path = "/session/ensure" =>
                     /\ request.method = "POST"
                     /\ request.reuseActive = FALSE
                     /\ i = Len(RecoveryRequests)
                     /\ i = IF visual_start.active_session_id # NULL THEN 3 ELSE 2
    /\ \A i \in DOMAIN RecoveryActions :
           ~RecoveryActions[i].ok =>
               /\ i = Len(RecoveryActions)
               /\ visual_start.recovery.result = "failed"
               /\ ~RecoveryActions[i].skipped
               /\ Len(RecoveryRequests) =
                      Cardinality({j \in 1..i : ~RecoveryActions[j].skipped})
    /\ (RecoveryReturned /\ visual_start.recovery.attempted) =>
           LET last == RecoveryActions[Len(RecoveryActions)]
           IN /\ visual_start.recovery.result \in {"success", "failed"}
              /\ visual_start.recovery.result = "success" <=>
                     /\ last.action = "ensure-session"
                     /\ last.ok
                     /\ CoreRequestIndexes("/session/ensure") # {}
              /\ visual_start.recovery.result = "failed" <=> ~last.ok

\* health named an active session and the stop failed: no ensure was sent
C40_Witness ==
    /\ RecoveryReturned
    /\ Len(RecoveryRequests) = 2
    /\ RecoveryRequests[2].path = "/session/stop"
    /\ visual_start.recovery.result = "failed"
    /\ visual_start.recovery.reason = "session-stop-failed"
    /\ CoreRequestIndexes("/session/ensure") = {}

====
